---- MODULE Spec2Model ----
(***************************************************************************)
(* Model of the MultiplePlaylists / PlaylistMembership Luna plugins:       *)
(* the membership resolver (cache, in-flight map, concurrency gate), the   *)
(* "recently added" overlay with its expiry timers, the add-to-playlists   *)
(* orchestrator and the row annotation pipeline (observe + periodic scan). *)
(*                                                                         *)
(* Scheduling: JavaScript runs one job at a time.  Every action below is   *)
(* one synchronous run of a handler (a call, a timer callback, a mutation  *)
(* observer callback) or the chain of promise reactions that one settling  *)
(* lookup triggers, which run back to back in one microtask checkpoint.    *)
(***************************************************************************)
EXTENDS Integers, Sequences, FiniteSets, TLC

(***************************************************************************)
(* Program constants.                                                      *)
(***************************************************************************)
MAX_CONCURRENT_MEMBERSHIP == 5

EXPIRY_MS == 120000

(***************************************************************************)
(* Bounds of the model.                                                    *)
(***************************************************************************)
\* distinct track ids the callers may ask about
NumTracks == 7

\* membership computations ever handed to enqueueMembership
MaxTasks == 8

\* invocations of addToSelectedPlaylists
MaxAdds == 1

\* lookups in which checkSongInUserPlaylists hits its outer catch
MaxFailures == 1

\* playlists shown in the modal
NumPlaylists == 2

\* clock steps per expiry window, and how many steps the clock may take
TicksPerWindow == 2

MaxTicks == 4

\* elements the host ever inserts
MaxNodes == 2

\* invocations of addToSelectedPlaylists when the overlay is examined
MaxOverlayAdds == 2

Tracks == 1..NumTracks

Playlists == 1..NumPlaylists

TickMs == EXPIRY_MS \div TicksPerWindow

MaxClock == MaxTicks * TickMs

VARIABLES
    membershipResultCache,  \* track -> id of the task whose result is cached, 0 = no entry
    membershipInFlight,     \* track -> id of the task whose promise is stored, 0 = no entry
    inFlightCount,          \* the gate's counter
    membershipQueue,        \* queued run closures, by task id
    tasks,                  \* every computation handed to enqueueMembership, in submission order
    addEpoch,               \* track -> number of addToSelectedPlaylists runs that added it somewhere
    nAdds,                  \* invocations of addToSelectedPlaylists so far
    served,                 \* track -> how the latest getMembership call for it was answered
    resolvedSince,          \* track -> task whose result a call already resolved to since the last invalidation
    recentlyAddedByTrack,   \* the overlay: a function whose domain is the set of keys of the Map
    timers,                 \* pending setTimeout callbacks of rememberRecentlyAdded, in creation order
    clock,                  \* milliseconds since load
    lastAdded,              \* <<track, playlist>> -> time of the latest rememberRecentlyAdded, -1 = never
    nodes,                  \* the elements the host has put under document.body, in document order
    readyState,             \* "head": no document.body yet; "body": it exists, DOMContentLoaded
                            \* has not fired; "loaded": DOMContentLoaded has fired
    pluginState,            \* "loading" before init() has run, then "running", then "unloaded"
    moState,                \* the MutationObserver: "idle", "deferred", "observing", "disconnected"
    processed,              \* the WeakSet of the observe() call
    pending,                \* added nodes in the observer's record queue
    scanTimer,              \* whether the setInterval of startRowScan is active
    again,                  \* a second observe() call with the same selector and callback:
                            \* its watcher ("none" before the call) and its WeakSet
    faults,                 \* track ids for which MediaItem.fromId throws, and where the
                            \* exceptions of row processing ended up
    host,                   \* the host snapshot: current user, Playlist helper, playlists
    out,                    \* what the latest lookup or modal rendering produced
    addRun,                 \* what the latest addToSelectedPlaylists run did
    norm,                   \* a string handed to the metadata lookup's normalize, and
                            \* what normalize returned for it
    ui                      \* the modals and the context-menu button: the module-level
                            \* currentSongIdForModal and currentSongMetaForModal, every
                            \* showPlaylistSelector invocation, the overlays in the
                            \* document, contextMenuSongId and the pending button clicks

resolverVars == <<membershipResultCache, membershipInFlight, inFlightCount,
                  membershipQueue, tasks, served, resolvedSince>>

overlayVars == <<recentlyAddedByTrack, timers, lastAdded>>

rowVars == <<nodes, readyState, pluginState, moState, processed, pending, scanTimer, again, faults>>

hostVars == <<host, out, addRun, norm, ui>>

vars == <<membershipResultCache, membershipInFlight, inFlightCount, membershipQueue,
          tasks, addEpoch, nAdds, served, resolvedSince,
          recentlyAddedByTrack, timers, clock, lastAdded,
          nodes, readyState, pluginState, moState, processed, pending, scanTimer, again,
          faults, host, out, addRun, norm, ui>>

(***************************************************************************)
(* Helpers.                                                                *)
(***************************************************************************)
Min(a, b) == IF a <= b THEN a ELSE b

RECURSIVE SortedSeq(_)
SortedSeq(S) ==
    IF S = {} THEN <<>>
    ELSE LET m == CHOOSE x \in S : \A y \in S : x <= y
         IN <<m>> \o SortedSeq(S \ {m})

TaskIds == 1..Len(tasks)

Unsettled(k) == tasks[k].status \in {"queued", "running"}

NumFailures == Cardinality({k \in TaskIds : tasks[k].failed})

\* the track that is asked about again and again and added to playlists; it
\* finds the gate free, full or in between, depending on how many other
\* lookups are running when it is asked about
FocusTracks == {NumTracks}

\* the other track ids are each asked about once: track ids are opaque
\* strings, so the next new one is named by the smallest unused number
KnownTracks == {tasks[k].track : k \in TaskIds}

UnusedTracks == Tracks \ (KnownTracks \cup FocusTracks)

FreshTracks == {t \in UnusedTracks : \A u \in UnusedTracks : t <= u}

\* as many other tracks as the gate has slots: enough to make the focus
\* track's lookup wait in the queue
GateFillers == 1..MAX_CONCURRENT_MEMBERSHIP

(***************************************************************************)
(* The concurrency gate: enqueueMembership.                                *)
(***************************************************************************)
EnqueueAdmitsMutant(count) == count <= MAX_CONCURRENT_MEMBERSHIP

EnqueueAdmitsIdleMutant(count) == count < MAX_CONCURRENT_MEMBERSHIP - 1

\* if (inFlightCount < MAX_CONCURRENT_MEMBERSHIP) run(); else membershipQueue.push(run)
EnqueueAdmits(count) == count < MAX_CONCURRENT_MEMBERSHIP

QueuePushMutant(queue, k) == <<k>> \o queue

\* membershipQueue.push(run)
QueuePush(queue, k) == Append(queue, k)

QueueShiftMutant(queue) == queue[Len(queue)]

\* const next = membershipQueue.shift(): the element taken off the queue
QueueShift(queue) == Head(queue)

CountAfterReleaseMutant(count) == count

\* inFlightCount-- in the gate's finally
CountAfterRelease(count) == count - 1

RunTaskMutant(ts, k) == ts

\* run(): inFlightCount++ and task() is called, which calls
\* checkSongInUserPlaylists: the lookup starts reading the host now
RunTask(ts, k) ==
    [ts EXCEPT ![k].status = "running",
               ![k].startEpoch = addEpoch[ts[k].track]]

NewTask(t, admit) ==
    [track |-> t,
     status |-> IF admit THEN "running" ELSE "queued",
     startEpoch |-> IF admit THEN addEpoch[t] ELSE -1,
     failed |-> FALSE,
     wasQueued |-> ~admit]

(***************************************************************************)
(* getMembership, as a function of the resolver's state r: callers that    *)
(* run several calls in one synchronous pass (a scan) chain it.            *)
(***************************************************************************)
ResolverNow ==
    [cache |-> membershipResultCache,
     inFlight |-> membershipInFlight,
     count |-> inFlightCount,
     queue |-> membershipQueue,
     tasks |-> tasks,
     served |-> served]

CachedResultMutant(r, t) == 0

\* const cached = membershipResultCache.get(trackId)
CachedResult(r, t) == r.cache[t]

ExistingInFlightMutant(r, t) == 0

\* const existing = membershipInFlight.get(trackId)
ExistingInFlight(r, t) == r.inFlight[t]

\* whether getMembership(t) hands a new computation to the gate
StartsLookupOn(r, t) == CachedResult(r, t) = 0 /\ ExistingInFlight(r, t) = 0

\* the task whose result getMembership(t) resolves to: the cached result,
\* the stored in-flight promise, or the new computation
AnswerOn(r, t) ==
    IF CachedResult(r, t) # 0 THEN CachedResult(r, t)
    ELSE IF ExistingInFlight(r, t) # 0 THEN ExistingInFlight(r, t)
    ELSE Len(r.tasks) + 1

GetMembership(r, t) ==
    IF CachedResult(r, t) # 0 THEN [r EXCEPT !.served[t] = "cache"]
    ELSE IF ExistingInFlight(r, t) # 0 THEN [r EXCEPT !.served[t] = "inflight"]
    ELSE LET k == Len(r.tasks) + 1
             admit == EnqueueAdmits(r.count)
         IN [cache |-> r.cache,
             inFlight |-> [r.inFlight EXCEPT ![t] = k],
             count |-> IF admit THEN r.count + 1 ELSE r.count,
             queue |-> IF admit THEN r.queue ELSE QueuePush(r.queue, k),
             tasks |-> Append(r.tasks, NewTask(t, admit)),
             served |-> [r.served EXCEPT ![t] = "new"]]

StartsLookup(t) == StartsLookupOn(ResolverNow, t)

AnswerOf(t) == AnswerOn(ResolverNow, t)

\* the resolver's variables take the values of r
ResolverBecomes(r) ==
    /\ Len(r.tasks) <= MaxTasks
    /\ membershipResultCache' = r.cache
    /\ membershipInFlight' = r.inFlight
    /\ inFlightCount' = r.count
    /\ membershipQueue' = r.queue
    /\ tasks' = r.tasks
    /\ served' = r.served

\* a caller asks for the membership of track t
GetMembershipCall(t) ==
    /\ ResolverBecomes(GetMembership(ResolverNow, t))
    /\ UNCHANGED <<resolvedSince, addEpoch, nAdds, recentlyAddedByTrack, timers, clock, lastAdded>>
    /\ UNCHANGED rowVars
    /\ UNCHANGED hostVars

(***************************************************************************)
(* Rows: what the pipeline reads from and writes to an element.            *)
(*   shape    "row":  div[data-test="tracklist-row"][role="row"], matched  *)
(*                    by the observe selector and by three rowSelectors    *)
(*            "tr":   a table row, matched by the scan's 'tr' only         *)
(*            "link": a[href*="/track/"], matched by the observe selector  *)
(*                    only                                                 *)
(*   attrId   the first non-empty id-bearing attribute on the element or   *)
(*            a descendant, 0 when there is none                           *)
(*   hrefId   the number in the href of a descendant track link, 0 = none  *)
(*   checked  data-ml-playlist-checked="1"                                 *)
(*   waits    the task whose promise the row's then-callback is attached   *)
(*            to, 0 = none                                                 *)
(*   annot    the result (task) data-ml-in-playlists / -playlist-count     *)
(*            were written from, 0 = not annotated                         *)
(*   extractions, lookups, seenBy   history: calls of getTrackIdFromRow    *)
(*            and getMembership made for the element, and which of the     *)
(*            watcher and the scan has come across it                      *)
(*   passed   history: how often each observe() call has passed the        *)
(*            element to its onAdd callback                                *)
(***************************************************************************)
AnnotateRowWithMembershipMutant(node, k) == [node EXCEPT !.waits = 0]

\* annotateRowWithMembership(row, res)
AnnotateRowWithMembership(node, k) == [node EXCEPT !.annot = k, !.waits = 0]

(***************************************************************************)
(* A running lookup settles.  checkSongInUserPlaylists never rejects: an   *)
(* error inside it is caught and turned into the empty result (failed),    *)
(* which the task then caches like any other result.  The reactions run    *)
(* in this order: the task's continuation (cache.set), the outer promise's *)
(* finally (membershipInFlight.delete), the gate's finally (release and    *)
(* admit the next queued run).                                             *)
(***************************************************************************)
\* membershipResultCache.set(trackId, result)
CacheAfterLookup(t, k, fail) == [membershipResultCache EXCEPT ![t] = k]

\* .finally(() => { membershipInFlight.delete(trackId); })
InFlightAfterSettle(t) == [membershipInFlight EXCEPT ![t] = 0]

TaskSettles(k, fail) ==
    /\ k \in TaskIds
    /\ tasks[k].status = "running"
    /\ fail => NumFailures < MaxFailures
    /\ LET t == tasks[k].track
           hasNext == membershipQueue # <<>>
           settled == [tasks EXCEPT ![k].status = "settled", ![k].failed = fail]
       IN /\ membershipResultCache' = CacheAfterLookup(t, k, fail)
          /\ membershipInFlight' = InFlightAfterSettle(t)
          /\ resolvedSince' = [resolvedSince EXCEPT ![t] = k]
          /\ IF hasNext
             THEN /\ tasks' = RunTask(settled, QueueShift(membershipQueue))
                  /\ membershipQueue' = Tail(membershipQueue)
                  /\ inFlightCount' = CountAfterRelease(inFlightCount) + 1
             ELSE /\ tasks' = settled
                  /\ membershipQueue' = membershipQueue
                  /\ inFlightCount' = CountAfterRelease(inFlightCount)
    /\ nodes' = [n \in DOMAIN nodes |->
                    IF nodes[n].waits = k THEN AnnotateRowWithMembership(nodes[n], k)
                    ELSE nodes[n]]
    /\ UNCHANGED <<served, addEpoch, nAdds, recentlyAddedByTrack, timers, clock, lastAdded>>
    /\ UNCHANGED <<readyState, pluginState, moState, processed, pending, scanTimer, again, faults>>
    /\ UNCHANGED hostVars

(***************************************************************************)
(* The overlay: rememberRecentlyAdded and its expiry timer.                *)
(***************************************************************************)
OverlayNow == [recent |-> recentlyAddedByTrack, timers |-> timers, lastAdded |-> lastAdded]

NewTimerMutant(ov, tid, pid) == ov.timers

\* setTimeout(() => {...}, 120_000)
NewTimer(ov, tid, pid) ==
    Append(ov.timers, [due |-> clock + EXPIRY_MS, tid |-> tid, pid |-> pid])

RememberRecentlyAdded(ov, tid, pid) ==
    LET old == IF tid \in DOMAIN ov.recent THEN ov.recent[tid] ELSE {}
    IN [recent |-> [x \in DOMAIN ov.recent \cup {tid} |->
                        IF x = tid THEN old \cup {pid} ELSE ov.recent[x]],
        timers |-> NewTimer(ov, tid, pid),
        lastAdded |-> [ov.lastAdded EXCEPT ![<<tid, pid>>] = clock]]

ExpireEntryKeepsSetMutant(recent, tid, pid) ==
    IF tid \notin DOMAIN recent THEN recent ELSE [recent EXCEPT ![tid] = @ \ {pid}]

ExpireEntryMutant(recent, tid, pid) == [x \in DOMAIN recent \ {tid} |-> recent[x]]

\* the timer callback of rememberRecentlyAdded
ExpireEntry(recent, tid, pid) ==
    IF tid \notin DOMAIN recent THEN recent
    ELSE LET s == recent[tid] \ {pid}
         IN IF s = {} THEN [x \in DOMAIN recent \ {tid} |-> recent[x]]
            ELSE [recent EXCEPT ![tid] = s]

\* the oldest timer is due: its callback runs
TimerFires ==
    /\ timers # <<>>
    /\ Head(timers).due <= clock
    /\ recentlyAddedByTrack' = ExpireEntry(recentlyAddedByTrack, Head(timers).tid, Head(timers).pid)
    /\ timers' = Tail(timers)
    /\ UNCHANGED <<resolverVars, addEpoch, nAdds, clock, lastAdded>>
    /\ UNCHANGED rowVars
    /\ UNCHANGED hostVars

\* time passes; a timer that is due runs before time passes on
Tick ==
    /\ clock < MaxClock
    /\ timers # <<>> => Head(timers).due > clock
    /\ clock' = IF timers # <<>> THEN Min(clock + TickMs, Head(timers).due)
                ELSE clock + TickMs
    /\ UNCHANGED <<resolverVars, addEpoch, nAdds, recentlyAddedByTrack, timers, lastAdded>>
    /\ UNCHANGED rowVars
    /\ UNCHANGED hostVars

\* const recent = recentlyAddedByTrack.get(String(currentSongIdForModal)):
\* the playlists the modal unions into its "already contains" set
RecentFor(t) == IF t \in DOMAIN recentlyAddedByTrack THEN recentlyAddedByTrack[t] ELSE {}

(***************************************************************************)
(* addToSelectedPlaylists(song): sel are the checked, enabled checkboxes,  *)
(* ok the playlists whose add request does not throw, titleOk whether      *)
(* song.title() resolves.                                                  *)
(***************************************************************************)
\* the run of one invocation: the overlay it writes to, the host calls and
\* overlay writes it makes in order, its counters and what the user is shown
NoRun == [variant |-> "none", track |-> 0, sel |-> {}, log |-> <<>>,
          successCount |-> 0, errorCount |-> 0, shown |-> "none"]

StartRun(variant, ov, t, sel) ==
    [ov |-> ov, variant |-> variant, track |-> t, sel |-> sel, log |-> <<>>,
     successCount |-> 0, errorCount |-> 0, shown |-> "none"]

\* the add request of one iteration: redux.actions[...]({...}) in the newer
\* variant, redux.store.dispatch({...}) in the older one
Request(pid, threw) == [op |-> "add", pid |-> pid, threw |-> threw]

Remembered(pid) == [op |-> "remember", pid |-> pid]

\* the try block ran to its end: the request, then (newer variant)
\* rememberRecentlyAdded, then successCount++
Added(run, t, pid) ==
    IF run.variant = "new"
    THEN [run EXCEPT !.ov = RememberRecentlyAdded(run.ov, t, pid),
                     !.log = run.log \o <<Request(pid, FALSE), Remembered(pid)>>,
                     !.successCount = @ + 1]
    ELSE [run EXCEPT !.log = Append(run.log, Request(pid, FALSE)),
                     !.successCount = @ + 1]

CaughtMutant(run, t, pid) ==
    [run EXCEPT !.ov = RememberRecentlyAdded(run.ov, t, pid),
                !.log = run.log \o <<Request(pid, TRUE), Remembered(pid)>>,
                !.errorCount = @ + 1]

\* the request threw: catch (error) { errorCount++ }
Caught(run, t, pid) ==
    [run EXCEPT !.log = Append(run.log, Request(pid, TRUE)),
                !.errorCount = @ + 1]

\* for (const playlistId of selectedPlaylistIds) { try {...} catch {...} }
RECURSIVE AddLoop(_, _, _, _)
AddLoop(run, t, todo, ok) ==
    IF todo = <<>> THEN run
    ELSE AddLoop(IF Head(todo) \in ok THEN Added(run, t, Head(todo))
                 ELSE Caught(run, t, Head(todo)),
                 t, Tail(todo), ok)

InvalidateMutant(t) == [u \in Tracks |-> 0]

\* membershipResultCache.delete(String(song.id))
Invalidate(t) == [membershipResultCache EXCEPT ![t] = 0]

\* if (selectedPlaylistIds.length === 0)
NothingSelected(sel) == sel = {}

\* showNotification(message, type) of the newer variant appends a toast to
\* document.body; what is shown is named by the call site
ShowNotification(run, what) == [run EXCEPT !.shown = what]

\* showNotification of the older variant has an empty body
ShowNotificationOld(run, what) == run

\* the result notification of the newer variant: only when something failed
ResultNotice(run) ==
    IF run.errorCount > 0
    THEN ShowNotification(run, IF run.successCount > 0 THEN "partial" ELSE "failed")
    ELSE run

\* the result notification of the older variant
ResultNoticeOld(run) ==
    ShowNotificationOld(run, IF run.errorCount = 0 THEN "success" ELSE "warning")

\* the record kept of a run
RunRecord(run) ==
    [variant |-> run.variant, track |-> run.track, sel |-> run.sel, log |-> run.log,
     successCount |-> run.successCount, errorCount |-> run.errorCount,
     shown |-> run.shown]

\* the whole invocation of the newer variant
RunOf(t, sel, ok, titleOk) ==
    LET start == StartRun("new", OverlayNow, t, sel)
    IN IF NothingSelected(sel) THEN ShowNotification(start, "select")
       ELSE IF ~titleOk THEN ShowNotification(start, "error")
       ELSE ResultNotice(AddLoop(start, t, SortedSeq(sel), ok))

AddRequests(t, sel, ok, titleOk) ==
    /\ nAdds' = nAdds + 1
    /\ ok \subseteq sel
    /\ LET run == RunOf(t, sel, ok, titleOk)
       IN /\ addRun' = RunRecord(run)
          /\ recentlyAddedByTrack' = run.ov.recent
          /\ timers' = run.ov.timers
          /\ lastAdded' = run.ov.lastAdded
          /\ IF NothingSelected(sel) \/ ~titleOk
             THEN UNCHANGED <<membershipResultCache, resolvedSince, addEpoch>>
             ELSE /\ membershipResultCache' = Invalidate(t)
                  /\ resolvedSince' = [resolvedSince EXCEPT ![t] = 0]
                  /\ addEpoch' = [addEpoch EXCEPT ![t] = IF ok # {} THEN @ + 1 ELSE @]
    /\ UNCHANGED <<membershipInFlight, inFlightCount, membershipQueue, tasks, served, clock>>
    /\ UNCHANGED rowVars

\* an invocation whose selection is given, the modals left as they are
AddToSelectedPlaylists(t, sel, ok, titleOk) ==
    /\ AddRequests(t, sel, ok, titleOk)
    /\ UNCHANGED <<host, out, norm, ui>>

\* the whole invocation of the older variant: no overlay, no cache
RunOfOld(t, sel, ok, titleOk) ==
    LET start == StartRun("old", OverlayNow, t, sel)
    IN IF NothingSelected(sel) THEN ShowNotificationOld(start, "select")
       ELSE IF ~titleOk THEN ShowNotificationOld(start, "error")
       ELSE ResultNoticeOld(AddLoop(start, t, SortedSeq(sel), ok))

AddToSelectedPlaylistsOld(t, sel, ok, titleOk) ==
    /\ nAdds' = nAdds + 1
    /\ ok \subseteq sel
    /\ addRun' = RunRecord(RunOfOld(t, sel, ok, titleOk))
    /\ UNCHANGED <<resolverVars, addEpoch, overlayVars, clock>>
    /\ UNCHANGED rowVars
    /\ UNCHANGED <<host, out, norm, ui>>

(***************************************************************************)
(* The row annotation pipeline: processTrackRow, scanRowsOnce, observe.    *)
(***************************************************************************)
RowTracks == {1, NumTracks}

NewNode(tpl) ==
    [shape |-> tpl.shape, attrId |-> tpl.attrId, hrefId |-> tpl.hrefId,
     checked |-> FALSE, waits |-> 0, annot |-> 0,
     extractions |-> 0, lookups |-> 0, seenBy |-> {}, passed |-> <<0, 0>>]

\* getTrackIdFromRow: the id-bearing attributes first, then the track link
GetTrackIdFromRow(node) == IF node.attrId # 0 THEN node.attrId ELSE node.hrefId

\* a new element carries no id, an id another element carries, or a new
\* id: ids are opaque strings, so a new one is named by the smallest unused
CarriedIds == {GetTrackIdFromRow(nodes[n]) : n \in DOMAIN nodes} \ {0}

NextRowIds ==
    CarriedIds \cup {t \in RowTracks \ CarriedIds : \A u \in RowTracks \ CarriedIds : t <= u}

NodeTemplates ==
    {[shape |-> sh, attrId |-> a, hrefId |-> 0] :
        sh \in {"row", "tr", "link"}, a \in {0} \cup NextRowIds}
    \cup {[shape |-> sh, attrId |-> 0, hrefId |-> h] : sh \in {"row", "tr"}, h \in NextRowIds}

AlreadyCheckedMutant(node) == FALSE

\* host.getAttribute("data-ml-playlist-checked") === "1"
AlreadyChecked(node) == node.checked

MarkNoIdMutant(node) == [node EXCEPT !.extractions = @ + 1]

\* if (!trackId) { host.setAttribute("data-ml-playlist-checked", "1"); return; }
MarkNoId(node) == [node EXCEPT !.checked = TRUE, !.extractions = @ + 1]

\* host.setAttribute("data-ml-playlist-checked", "1") of a row with an id
MarkedRow(node) == [node EXCEPT !.checked = TRUE, !.extractions = @ + 1]

\* processTrackRow(row) on st = [nodes, r, processed]; a cache hit resolves
\* the promise at once and the row is annotated in the same checkpoint.
\* MediaItem.fromId(trackId, "track") is a call into the host library after
\* the row is marked: where it throws, the exception leaves processTrackRow
\* before getMembership is called (st.thrown)
ProcessTrackRow(st, n) ==
    LET node == st.nodes[n]
        id == GetTrackIdFromRow(node)
    IN IF AlreadyChecked(node) THEN st
       ELSE IF id = 0 THEN [st EXCEPT !.nodes[n] = MarkNoId(node)]
       ELSE IF id \in faults.ids
            THEN [st EXCEPT !.nodes[n] = MarkedRow(node), !.thrown = TRUE]
       ELSE LET k == AnswerOn(st.r, id)
                asked == [node EXCEPT !.checked = TRUE, !.extractions = @ + 1,
                                      !.lookups = @ + 1, !.waits = k]
            IN [st EXCEPT
                  !.nodes[n] = IF CachedResult(st.r, id) # 0
                               THEN AnnotateRowWithMembership(asked, k) ELSE asked,
                  !.r = GetMembership(st.r, id)]

RowSelectors ==
    <<"div[data-test=tracklist-row]", "li[data-test=tracklist-row]", "[data-track-id]",
      "[data-test=track-row]", "[data-test=table-cell-title]", "div[role=row]",
      "[role=row]", "tr">>

SelectorMatches(sel, node) ==
    \/ node.shape = "row" /\ sel \in {"div[data-test=tracklist-row]", "div[role=row]", "[role=row]"}
    \/ node.shape = "tr" /\ sel = "tr"

\* the observe selector of initPlaylistMembershipObserver
MatchesObserve(node) == node.shape \in {"row", "link"}

Seen(st, n, who) == [st EXCEPT !.nodes[n].seenBy = @ \cup {who}]

\* document.querySelectorAll(sel).forEach(...) of scanRowsOnce, from element
\* n on (the state reached so far is computed once and named st)
RECURSIVE ScanSelector(_, _, _)
ScanSelector(reached, sel, n) ==
    CHOOSE result \in
        {IF n > Len(st.nodes) \/ st.thrown THEN st
         ELSE IF ~SelectorMatches(sel, st.nodes[n]) THEN ScanSelector(st, sel, n + 1)
         ELSE IF st.nodes[n].checked THEN ScanSelector(Seen(st, n, "scan"), sel, n + 1)
         ELSE ScanSelector(ProcessTrackRow(Seen(st, n, "scan"), n), sel, n + 1) :
            st \in {reached}} : TRUE

\* for (const sel of rowSelectors) { ... }, from selector i on
RECURSIVE ScanRowsOnce(_, _)
ScanRowsOnce(reached, i) ==
    CHOOSE result \in
        {IF i > Len(RowSelectors) \/ st.thrown THEN st
         ELSE ScanRowsOnce(ScanSelector(st, RowSelectors[i], 1), i + 1) :
            st \in {reached}} : TRUE

\* onAdd(el) of the observe() call st.call
Passed(st, n) == [Seen(st, n, "watcher") EXCEPT !.nodes[n].passed[st.call] = @ + 1]

OnceOnlyMutant(st, n) == ProcessTrackRow([Passed(st, n) EXCEPT !.processed = @ \cup {n}], n)

\* if (!processed.has(el)) { processed.add(el); onAdd(el); }
OnceOnly(st, n) ==
    IF n \in st.processed THEN st
    ELSE ProcessTrackRow([Passed(st, n) EXCEPT !.processed = @ \cup {n}], n)

\* the observer callback, or process(document), over the elements in recs
RECURSIVE ObserveNodes(_, _)
ObserveNodes(reached, recs) ==
    CHOOSE result \in
        {IF recs = <<>> \/ st.thrown THEN st
         ELSE ObserveNodes(IF MatchesObserve(st.nodes[Head(recs)])
                           THEN OnceOnly(st, Head(recs))
                           ELSE st,
                           Tail(recs)) :
            st \in {reached}} : TRUE

PipelineNow ==
    [nodes |-> nodes, r |-> ResolverNow, processed |-> processed, call |-> 1, thrown |-> FALSE]

\* the same state seen from the second observe() call, and from the first
SecondCall(st) == [st EXCEPT !.processed = again.processed, !.call = 2, !.thrown = FALSE]

FirstCall(st, seen) == [st EXCEPT !.processed = seen, !.call = 1]

PipelineBecomes(st) ==
    /\ ResolverBecomes(st.r)
    /\ nodes' = st.nodes
    /\ processed' = st.processed

AllNodes == [n \in 1..Len(nodes) |-> n]

pipelineFrame == <<resolvedSince, addEpoch, nAdds, recentlyAddedByTrack, timers, clock, lastAdded>>

\* init(): observe() processes the document and installs the observer, or
\* defers that to DOMContentLoaded; startRowScan() scans and starts the timer
PluginInit ==
    /\ pluginState = "loading"
    /\ PipelineBecomes(ScanRowsOnce(ObserveNodes(PipelineNow, AllNodes), 1))
    /\ moState' = IF readyState # "head" THEN "observing" ELSE "deferred"
    /\ scanTimer' = TRUE
    /\ pluginState' = "running"
    /\ UNCHANGED <<readyState, pending>>
    /\ UNCHANGED pipelineFrame
    /\ UNCHANGED <<again, faults>>
    /\ UNCHANGED hostVars

\* the parser creates document.body
BodyParsed ==
    /\ readyState = "head"
    /\ readyState' = "body"
    /\ UNCHANGED <<resolverVars, nodes, pluginState, moState, processed, pending, scanTimer>>
    /\ UNCHANGED pipelineFrame
    /\ UNCHANGED <<again, faults>>
    /\ UNCHANGED hostVars

\* DOMContentLoaded fires; the listener of observe(), if installed, runs
\* once: mo.observe(document.body, ...)
DOMContentLoaded ==
    /\ readyState = "body"
    /\ pending = <<>>
    /\ readyState' = "loaded"
    /\ moState' = IF moState = "deferred" THEN "observing" ELSE moState
    /\ UNCHANGED <<resolverVars, nodes, pluginState, processed, pending, scanTimer>>
    /\ UNCHANGED pipelineFrame
    /\ UNCHANGED <<again, faults>>
    /\ UNCHANGED hostVars

\* the host appends a new element under document.body
HostInserts(tpl) ==
    /\ readyState # "head"
    /\ Len(nodes) < MaxNodes
    /\ nodes' = Append(nodes, NewNode(tpl))
    /\ pending' = IF moState = "observing" THEN Append(pending, Len(nodes) + 1) ELSE pending
    /\ UNCHANGED <<resolverVars, readyState, pluginState, moState, processed, scanTimer>>
    /\ UNCHANGED pipelineFrame
    /\ UNCHANGED <<again, faults>>
    /\ UNCHANGED hostVars

\* the host detaches an element and puts the same node back (once per
\* callback: a second record for the node changes nothing, the node is in
\* processed by then)
HostReinserts(n) ==
    /\ n \in 1..Len(nodes)
    /\ moState = "observing"
    /\ \A i \in 1..Len(pending) : pending[i] # n
    /\ pending' = Append(pending, n)
    /\ UNCHANGED <<resolverVars, nodes, readyState, pluginState, moState, processed, scanTimer>>
    /\ UNCHANGED pipelineFrame
    /\ UNCHANGED <<again, faults>>
    /\ UNCHANGED hostVars

\* } catch (e) { trace.msg.err.withContext("scanRowsOnce")(e); }
CaughtByScan(thrown) == [faults EXCEPT !.caught = @ \/ thrown]

\* an exception leaves a MutationObserver callback, or observe() itself:
\* neither has a handler, the host's event loop receives it
Escaped(thrown) == [faults EXCEPT !.escaped = @ \/ thrown]

\* the MutationObserver callback runs over the queued records; each
\* watcher's callback is a call of its own
ObserverCallback ==
    /\ pending # <<>>
    /\ LET first == ObserveNodes(PipelineNow, pending)
           second == IF again.state = "observing"
                     THEN ObserveNodes(SecondCall(first), pending)
                     ELSE SecondCall(first)
       IN /\ PipelineBecomes(FirstCall(second, first.processed))
          /\ again' = [again EXCEPT !.processed = second.processed]
          /\ faults' = Escaped(first.thrown \/ second.thrown)
    /\ pending' = <<>>
    /\ UNCHANGED <<readyState, pluginState, moState, scanTimer>>
    /\ UNCHANGED pipelineFrame
    /\ UNCHANGED hostVars

\* setInterval(scanRowsOnce, 1500): a timer task, so no record is pending
ScanTick ==
    /\ scanTimer
    /\ pending = <<>>
    /\ LET pass == ScanRowsOnce(PipelineNow, 1)
       IN /\ PipelineBecomes(pass)
          /\ faults' = CaughtByScan(pass.thrown)
    /\ UNCHANGED <<readyState, pluginState, moState, pending, scanTimer>>
    /\ UNCHANGED pipelineFrame
    /\ UNCHANGED again
    /\ UNCHANGED hostVars

\* a teardown that also drops the queued run closures
UnloadMutant ==
    /\ pluginState = "running"
    /\ pending = <<>>
    /\ pluginState' = "unloaded"
    /\ moState' = IF moState = "observing" THEN "disconnected" ELSE moState
    /\ again' = [again EXCEPT !.state = IF @ = "observing" THEN "disconnected" ELSE @]
    /\ scanTimer' = FALSE
    /\ membershipQueue' = <<>>
    /\ UNCHANGED <<membershipResultCache, membershipInFlight, inFlightCount, tasks, served>>
    /\ UNCHANGED <<nodes, readyState, processed, pending, faults>>
    /\ UNCHANGED pipelineFrame
    /\ UNCHANGED hostVars

\* the host runs the unloads: mo.disconnect() and clearInterval(id)
Unload ==
    /\ pluginState = "running"
    /\ pending = <<>>
    /\ pluginState' = "unloaded"
    /\ moState' = IF moState = "observing" THEN "disconnected" ELSE moState
    /\ again' = [again EXCEPT !.state = IF @ = "observing" THEN "disconnected" ELSE @]
    /\ scanTimer' = FALSE
    /\ UNCHANGED <<resolverVars, nodes, readyState, processed, pending, faults>>
    /\ UNCHANGED pipelineFrame
    /\ UNCHANGED hostVars

\* list virtualization: the host rewrites the id attributes of an attached
\* row in place to show another track; no childList record is produced and
\* the attributes the plugin wrote stay on the element
HostRecycles(n, id) ==
    /\ n \in 1..Len(nodes)
    /\ GetTrackIdFromRow(nodes[n]) \notin {0, id}
    /\ id \notin CarriedIds
    /\ nodes' = [nodes EXCEPT ![n].attrId = IF @ # 0 THEN id ELSE @,
                              ![n].hrefId = IF nodes[n].attrId = 0 THEN id ELSE @]
    /\ UNCHANGED <<resolverVars, readyState, pluginState, moState, processed, pending, scanTimer>>
    /\ UNCHANGED pipelineFrame
    /\ UNCHANGED <<again, faults>>
    /\ UNCHANGED hostVars

\* the host library starts to throw from MediaItem.fromId for one track id
\* while the plugin runs
HostBreaks(id) ==
    /\ pluginState = "running"
    /\ id \notin faults.ids
    /\ faults' = [faults EXCEPT !.ids = @ \cup {id}]
    /\ UNCHANGED <<resolverVars, nodes, readyState, pluginState, moState, processed,
                   pending, scanTimer, again>>
    /\ UNCHANGED pipelineFrame
    /\ UNCHANGED hostVars

\* observe() is called a second time, with the selector and callback of the
\* first call, from a task of its own: it has a WeakSet of its own, passes
\* the document's matches and installs a second watcher on document.body
ObserveAgain ==
    /\ pluginState = "running"
    /\ readyState = "loaded"
    /\ again.state = "none"
    /\ pending = <<>>
    /\ LET second == ObserveNodes(SecondCall(PipelineNow), AllNodes)
       IN /\ PipelineBecomes(FirstCall(second, processed))
          /\ again' = IF second.thrown THEN again
                       ELSE [state |-> "observing", processed |-> second.processed]
          /\ faults' = Escaped(second.thrown)
    /\ UNCHANGED <<readyState, pluginState, moState, pending, scanTimer>>
    /\ UNCHANGED pipelineFrame
    /\ UNCHANGED hostVars

\* the host attaches a wrapper and then appends a new row to it: the row is
\* a descendant of one record's added node and the added node of the next
HostInsertsNested(tpl) ==
    /\ readyState # "head"
    /\ Len(nodes) < MaxNodes
    /\ nodes' = Append(nodes, NewNode(tpl))
    /\ pending' = IF moState = "observing"
                  THEN pending \o <<Len(nodes) + 1, Len(nodes) + 1>> ELSE pending
    /\ UNCHANGED <<resolverVars, readyState, pluginState, moState, processed, scanTimer>>
    /\ UNCHANGED pipelineFrame
    /\ UNCHANGED <<again, faults>>
    /\ UNCHANGED hostVars

(***************************************************************************)
(* The underlying lookup: checkSongInUserPlaylists and                     *)
(* checkSongInUserPlaylistsByMeta over a snapshot of the host.             *)
(*                                                                         *)
(* host.store       "ok", or "throws" when redux.store.getState() throws   *)
(* host.userId      state.user?.meta?.id, "" when it is missing            *)
(* host.helper      which static helper the Playlist class has: "none",    *)
(*                  "getUserPlaylists", "getMyPlaylists", or "throws" (a   *)
(*                  helper exists and rejects)                             *)
(* host.pl[p]       playlist p: type and creator id, whether the store     *)
(*                  (state.content.playlists) and the helper's array list  *)
(*                  it, what TidalApi.playlistItems(p) resolves to, and    *)
(*                  whether that call rejects                              *)
(* JavaScript values are records: t is the type, d the text String(v)      *)
(* gives.                                                                  *)
(***************************************************************************)
Null == [t |-> "null", d |-> ""]

Num(d) == [t |-> "number", d |-> d]

Str(d) == [t |-> "string", d |-> d]

\* the song the lookups and the modal are about, and another track
SongId == "123"

OtherId == "456"

NormalizeMutant(v) == v

\* const normalize = (v) => (v === undefined || v === null ? undefined : String(v))
Normalize(v) == IF v.t = "null" THEN [t |-> "undefined", d |-> ""] ELSE [t |-> "string", d |-> v.d]

BlankEntry ==
    [id |-> Null, mediaItemId |-> Null, trackId |-> Null, itemId |-> Null,
     productId |-> Null, albumId |-> Null, title |-> <<>>, artist |-> <<>>, item |-> <<>>]

With(field, v) == [BlankEntry EXCEPT ![field] = v]

Wrapped(outer, inner) == [outer EXCEPT !.item = <<inner>>]

Titled(title, artist) == [BlankEntry EXCEPT !.title = title, !.artist = artist]

\* const candidates = [entry?.id, entry?.mediaItemId, entry?.trackId, entry?.itemId, entry?.productId]
CandidateFields == <<"id", "mediaItemId", "trackId", "itemId", "productId">>

\* const entry = it?.item ?? it
EntryOf(it) == IF it.item # <<>> THEN it.item[1] ELSE it

\* the callback of rawList.some(...) in checkSongInUserPlaylists
EntryMatches(it, songId) ==
    LET entry == EntryOf(it)
        needle == Normalize(Str(songId))
    IN \E i \in 1..Len(CandidateFields) :
          LET cid == Normalize(entry[CandidateFields[i]])
          IN cid.t # "undefined" /\ cid = needle

\* const rawList = Array.isArray(items) ? items : items?.items ?? []
RawList(resp) ==
    IF resp.form = "array" THEN resp.list
    ELSE IF resp.form = "object" THEN resp.items
    ELSE <<>>

\* the normalize of checkSongInUserPlaylistsByMeta, on sequences of characters
Lower(c) == IF c = "A" THEN "a" ELSE IF c = "B" THEN "b" ELSE c

IsSpace(c) == c \in {" ", "\t"}

IsAlnum(c) == c \in {"a", "b", "A", "B", "1"}

RECURSIVE DropSpaces(_)
DropSpaces(str) ==
    IF str # <<>> /\ IsSpace(Head(str)) THEN DropSpaces(Tail(str)) ELSE str

\* .replace(/[\s ]+/g, " ")
RECURSIVE CollapseSpaces(_)
CollapseSpaces(str) ==
    IF str = <<>> THEN <<>>
    ELSE IF IsSpace(Head(str)) THEN <<" ">> \o CollapseSpaces(DropSpaces(str))
    ELSE <<Head(str)>> \o CollapseSpaces(Tail(str))

\* .replace(/[^a-zA-Z0-9\s]/g, "")
StripPunctuation(str) == SelectSeq(str, LAMBDA c : IsAlnum(c) \/ IsSpace(c))

RECURSIVE Reverse(_)
Reverse(str) == IF str = <<>> THEN <<>> ELSE Reverse(Tail(str)) \o <<Head(str)>>

\* .trim()
Trim(str) == Reverse(DropSpaces(Reverse(DropSpaces(str))))

NormalizeTitle(str) ==
    Trim(StripPunctuation(CollapseSpaces([i \in 1..Len(str) |-> Lower(str[i])])))

\* a string before and after const targetTitle = normalize(meta.title)
NotNormalized(str) == [input |-> str, done |-> FALSE, output |-> <<>>]

Normalized(str) == [input |-> str, done |-> TRUE, output |-> NormalizeTitle(str)]

\* the callback of rawList.some(...) in checkSongInUserPlaylistsByMeta
MetaMatches(it, meta) ==
    LET entry == EntryOf(it)
        eTitle == NormalizeTitle(entry.title)
        eArtist == NormalizeTitle(entry.artist)
        targetTitle == NormalizeTitle(meta.title)
        targetArtist == IF meta.artist # <<>> THEN NormalizeTitle(meta.artist) ELSE <<>>
    IN IF targetTitle = <<>> THEN FALSE
       ELSE IF targetArtist # <<>> THEN eTitle = targetTitle /\ eArtist = targetArtist
       ELSE eTitle = targetTitle

\* Object.values(playlistsRecord).filter(pl => pl && pl.type === "USER" &&
\* pl.creator?.id === currentUserId)
StoreOwned(h) ==
    {p \in Playlists : h.pl[p].inStore /\ h.pl[p].type = "USER" /\ h.pl[p].creator = h.userId}

\* what await Playlist.getUserPlaylists() / getMyPlaylists() resolves to
HelperList(h) == {p \in Playlists : h.pl[p].inHelper}

HasHelper(h) == h.helper \in {"getUserPlaylists", "getMyPlaylists"}

\* the fallback block: userPlaylists = Array.isArray(arr) ? arr : []
FallbackPlaylists(h) == IF HasHelper(h) THEN HelperList(h) ELSE {}

\* userPlaylists when the per-playlist loop starts
UserPlaylistsOf(h) == IF StoreOwned(h) # {} THEN StoreOwned(h) ELSE FallbackPlaylists(h)

EmptyResult(kind) ==
    [kind |-> kind, existsInPlaylists |-> FALSE, playlists |-> {}, fetched |-> {},
     enumerated |-> FALSE, shown |-> {}, checked |-> {}, order |-> <<>>,
     rejected |-> FALSE]

\* const state = redux.store.getState() throws
StoreThrows(h) == h.store = "throws"

OuterCatchMutant(kind) == [EmptyResult(kind) EXCEPT !.rejected = TRUE]

\* } catch (err) { console.error(...); return { existsInPlaylists: false, playlists: [] }; }
OuterCatch(kind) == EmptyResult(kind)

UserUnknownMutant(h) == FALSE

\* if (!currentUserId)
UserUnknown(h) == h.userId = ""

FetchOutcomeMutant(h, p, hit) == hit

\* try { items = await TidalApi.playlistItems(pl.uuid); ... if (exists) push }
\* catch (err) { console.error(...) }
FetchOutcome(h, p, hit) == IF h.pl[p].fetchFails THEN FALSE ELSE hit

\* const exists = rawList.some(...) of the id lookup, for playlist p
Exists(h, p, songId) ==
    \E i \in 1..Len(RawList(h.pl[p].resp)) : EntryMatches(RawList(h.pl[p].resp)[i], songId)

\* const exists = rawList.some(...) of the metadata lookup, for playlist p
ExistsByMeta(h, p, meta) ==
    \E i \in 1..Len(RawList(h.pl[p].resp)) : MetaMatches(RawList(h.pl[p].resp)[i], meta)

\* the body both lookups share: hits are the playlists whose item list,
\* once fetched, passes the lookup's test
LookupOver(h, kind, hits) ==
    IF StoreThrows(h) THEN OuterCatch(kind)
    ELSE IF UserUnknown(h) THEN EmptyResult(kind)
    ELSE LET userPlaylists == UserPlaylistsOf(h)
             containingPlaylists ==
                {p \in userPlaylists : FetchOutcome(h, p, p \in hits)}
         IN [kind |-> kind,
             existsInPlaylists |-> containingPlaylists # {},
             playlists |-> containingPlaylists,
             fetched |-> userPlaylists,
             enumerated |-> TRUE,
             shown |-> {}, checked |-> {}, order |-> <<>>, rejected |-> FALSE]

CheckSongInUserPlaylists(h, songId) ==
    LookupOver(h, "lookup", {p \in Playlists : Exists(h, p, songId)})

CheckSongInUserPlaylistsByMeta(h, meta) ==
    LookupOver(h, "meta", {p \in Playlists : ExistsByMeta(h, p, meta)})

(***************************************************************************)
(* The playlist list of the modal, in the two plugin variants.             *)
(***************************************************************************)
\* the song the modal was opened for: currentSongMetaForModal
SongMeta == [title |-> <<"a", " ", "b">>, artist |-> <<>>]

\* inSet: the id lookup, the metadata fallback when that finds nothing, and
\* the recent additions
InSet(h, recent) ==
    LET res == CheckSongInUserPlaylists(h, SongId).playlists
        resMeta == IF res = {} THEN CheckSongInUserPlaylistsByMeta(h, SongMeta).playlists
                   ELSE res
    IN resMeta \cup recent

Rendered(h, playlistsArray, recent) ==
    [EmptyResult("modal") EXCEPT !.shown = playlistsArray,
                                 !.checked = playlistsArray \cap InSet(h, recent)]

\* populatePlaylistListFromRedux
PopulatePlaylistListFromRedux(h, recent) ==
    LET playlists == {p \in Playlists : h.pl[p].inStore}
        playlistsArray == {p \in playlists :
                              /\ h.pl[p].type = "USER"
                              /\ h.userId # ""
                              /\ h.pl[p].creator = h.userId}
    IN IF playlists = {} THEN EmptyResult("modal")
       ELSE IF playlistsArray = {} /\ h.userId # "" THEN EmptyResult("modal")
       ELSE Rendered(h, playlistsArray, recent)

\* populatePlaylistList of the plugin with membership display
PopulatePlaylistList(h, recent) ==
    IF HasHelper(h)
    THEN IF HelperList(h) = {} THEN EmptyResult("modal")
         ELSE Rendered(h, HelperList(h), recent)
    ELSE PopulatePlaylistListFromRedux(h, recent)

\* populatePlaylistList of the plugin without membership display
PopulatePlaylistListOld(h) ==
    [EmptyResult("modal") EXCEPT
        !.shown = {p \in Playlists : h.pl[p].inStore /\ h.pl[p].type = "USER"}]

hostFrame == <<resolverVars, addEpoch, nAdds, overlayVars, clock, rowVars, host, addRun, norm, ui>>

\* the playlists a lookup on host h fetches the items of
FetchedBy(h) == IF StoreThrows(h) \/ UserUnknown(h) THEN {} ELSE UserPlaylistsOf(h)

\* the orders in which the concurrent fetches of the playlists in S can settle
CompletionOrders(S) ==
    {f \in [1..Cardinality(S) -> S] : \A i, j \in 1..Cardinality(S) : i # j => f[i] # f[j]}

\* userPlaylists as an array: Object.values of the store, or the helper's
\* array; playlists are numbered in that order
Enumeration(res) == SortedSeq(res.fetched)

\* containingPlaylists as an array: each callback pushes when its own
\* await TidalApi.playlistItems(...) has settled
RECURSIVE PushedInOrder(_, _)
PushedInOrder(res, completion) ==
    IF completion = <<>> THEN <<>>
    ELSE (IF Head(completion) \in res.playlists THEN <<Head(completion)>> ELSE <<>>)
         \o PushedInOrder(res, Tail(completion))

Completed(res, completion) == [res EXCEPT !.order = PushedInOrder(res, completion)]

\* a lookup runs to its end against the host snapshot, its fetches settling
\* in the order completion
LookupRuns(completion) ==
    /\ out' = Completed(CheckSongInUserPlaylists(host, SongId), completion)
    /\ UNCHANGED hostFrame

MetaLookupRuns(meta, completion) ==
    /\ out' = Completed(CheckSongInUserPlaylistsByMeta(host, meta), completion)
    /\ UNCHANGED hostFrame

\* the modal of either variant fills its list
ModalOpens ==
    /\ out' = PopulatePlaylistList(host, RecentFor(NumTracks))
    /\ UNCHANGED hostFrame

ModalOpensFromRedux ==
    /\ ~HasHelper(host)
    /\ out' = [PopulatePlaylistListFromRedux(host, RecentFor(NumTracks)) EXCEPT !.kind = "modalRedux"]
    /\ UNCHANGED hostFrame

ModalOpensOld ==
    /\ out' = [PopulatePlaylistListOld(host) EXCEPT !.kind = "modalOld"]
    /\ UNCHANGED hostFrame

(***************************************************************************)
(* The modal of showPlaylistSelector, with the module-level                *)
(* currentSongIdForModal / currentSongMetaForModal, and the context-menu   *)
(* button.  Songs are track numbers; 0 stands for undefined / null.        *)
(***************************************************************************)
\* showPlaylistSelector invocations and context menus examined
MaxOpens == 2

MaxMenus == 3

ModalSongs == {1, NumTracks}

\* song.id, and the title and artist showPlaylistSelector awaits
IdOfSong(s) == IF s = NumTracks THEN SongId ELSE OtherId

MetaOfSong(s) == IF s = NumTracks THEN SongMeta ELSE [title |-> <<"b">>, artist |-> <<>>]

\* <div id="playlist-list"> as modal.innerHTML creates it: no checkbox yet
NoList == [shown |-> {}, contains |-> {}, checked |-> {}, disabled |-> {}]

\* one invocation: up to its first await the overlay exists but is in no document
NewModal(s) ==
    [song |-> s, phase |-> "details", overlay |-> "created", container |-> 0,
     idUsed |-> 0, metaUsed |-> 0, recentUsed |-> 0, inSet |-> {}, list |-> NoList]

NoMenu == [open |-> FALSE, first |-> 0, failed |-> FALSE]

NoClick == [fired |-> FALSE, first |-> 0, failed |-> FALSE, song |-> 0, notice |-> "none"]

NoUi ==
    [currentSongIdForModal |-> 0, currentSongMetaForModal |-> 0,
     opened |-> <<>>, document |-> <<>>,
     contextMenuSongId |-> 0, menus |-> 0, menu |-> NoMenu, clicks |-> <<>>,
     lastClick |-> NoClick]

\* everything but ui
uiFrame == <<resolverVars, addEpoch, nAdds, overlayVars, clock, rowVars, host, out, addRun, norm>>

\* the invocations whose overlay is a child of document.body
Attached(u) == {u.document[j] : j \in DOMAIN u.document}

\* document.querySelector('#playlist-list'): the first such element in
\* document order, whichever invocation created it; 0 = null
QueryPlaylistList(u) == IF u.document = <<>> THEN 0 ELSE Head(u.document)

\* <input type="checkbox" data-playlist-id="${uuid}" ${inThis ? 'checked disabled' : ''}>
Checkboxes(shown, inSet) ==
    [shown |-> shown, contains |-> shown \cap inSet,
     checked |-> shown \cap inSet, disabled |-> shown \cap inSet]

\* playlistContainer.innerHTML = ...: the element the invocation found when
\* it started is filled, in the document or not
Fills(u, i, list) ==
    IF u.opened[i].container = 0 THEN u
    ELSE [u EXCEPT !.opened[u.opened[i].container].list = list]

Finished(u, i) == [u EXCEPT !.opened[i].phase = "done"]

\* if (currentSongIdForModal) { const res = await checkSongInUserPlaylists(currentSongIdForModal)
ReadsId(u, i) ==
    [u EXCEPT !.opened[i].idUsed = u.currentSongIdForModal, !.opened[i].phase = "idCheck"]

\* populatePlaylistListFromRedux up to its first await
FromReduxStarts(u, i, h) ==
    LET found == [u EXCEPT !.opened[i].container = QueryPlaylistList(u)]
    IN IF QueryPlaylistList(u) = 0 THEN Finished(found, i)
       ELSE IF PopulatePlaylistListFromRedux(h, {}).shown = {} THEN Finished(Fills(found, i, NoList), i)
       ELSE ReadsId(found, i)

\* populatePlaylistList up to its first await
PopulateStarts(u, i, h) ==
    LET found == [u EXCEPT !.opened[i].container = QueryPlaylistList(u)]
    IN IF QueryPlaylistList(u) = 0 THEN Finished(found, i)
       ELSE IF h.helper = "none" THEN FromReduxStarts(found, i, h)
       ELSE [found EXCEPT !.opened[i].phase = "helper"]

\* the playlists the list is built from, by the path the host makes it take
PlaylistsArray(h) ==
    IF HasHelper(h) THEN HelperList(h) ELSE PopulatePlaylistListFromRedux(h, {}).shown

\* the union with recentlyAddedByTrack.get(String(currentSongIdForModal))
\* and the rendering
Renders(u, i, h, recent) ==
    LET t == u.currentSongIdForModal
        local == IF t \in DOMAIN recent THEN recent[t] ELSE {}
        inSet == u.opened[i].inSet \cup local
        read == [u EXCEPT !.opened[i].recentUsed = t, !.opened[i].inSet = inSet]
    IN Finished(Fills(read, i, Checkboxes(PlaylistsArray(h), inSet)), i)

\* showPlaylistSelector(song) up to const songTitle = await song.title()
ShowPlaylistSelectorOn(u, s) == [u EXCEPT !.opened = Append(@, NewModal(s))]

ShowPlaylistSelector(s) ==
    /\ Len(ui.opened) < MaxOpens
    /\ ui' = ShowPlaylistSelectorOn(ui, s)
    /\ UNCHANGED uiFrame

\* title and artist have arrived: currentSongMetaForModal = ..., the overlay
\* is appended, currentSongIdForModal = song.id, populatePlaylistList()
DetailsResolve(i) ==
    /\ i \in DOMAIN ui.opened
    /\ ui.opened[i].phase = "details"
    /\ LET s == ui.opened[i].song
           shown == [ui EXCEPT !.currentSongMetaForModal = s,
                               !.document = Append(@, i),
                               !.opened[i].overlay = "attached",
                               !.currentSongIdForModal = s]
       IN ui' = PopulateStarts(shown, i, host)
    /\ UNCHANGED uiFrame

\* await Playlist.getUserPlaylists() / getMyPlaylists() settles
HelperResolves(i) ==
    /\ i \in DOMAIN ui.opened
    /\ ui.opened[i].phase = "helper"
    /\ ui' = IF ~HasHelper(host) THEN FromReduxStarts(ui, i, host)
             ELSE IF HelperList(host) = {} THEN Finished(Fills(ui, i, NoList), i)
             ELSE ReadsId(ui, i)
    /\ UNCHANGED uiFrame

\* await checkSongInUserPlaylists(...) settles; the fallback starts when it
\* found nothing: if (inSet.size === 0 && currentSongMetaForModal?.title)
IdCheckResolves(i) ==
    /\ i \in DOMAIN ui.opened
    /\ ui.opened[i].phase = "idCheck"
    /\ LET res == CheckSongInUserPlaylists(host, IdOfSong(ui.opened[i].idUsed)).playlists
           got == [ui EXCEPT !.opened[i].inSet = res]
       IN ui' = IF res = {} /\ ui.currentSongMetaForModal # 0
                THEN [got EXCEPT !.opened[i].metaUsed = ui.currentSongMetaForModal,
                                 !.opened[i].phase = "metaCheck"]
                ELSE Renders(got, i, host, recentlyAddedByTrack)
    /\ UNCHANGED uiFrame

\* await checkSongInUserPlaylistsByMeta(...) settles
MetaCheckResolves(i) ==
    /\ i \in DOMAIN ui.opened
    /\ ui.opened[i].phase = "metaCheck"
    /\ LET resMeta == CheckSongInUserPlaylistsByMeta(host, MetaOfSong(ui.opened[i].metaUsed)).playlists
           got == [ui EXCEPT !.opened[i].inSet = resMeta]
       IN ui' = Renders(got, i, host, recentlyAddedByTrack)
    /\ UNCHANGED uiFrame

\* the user toggles a checkbox that is not disabled
UserTicks(m, p) ==
    /\ m \in Attached(ui)
    /\ p \in ui.opened[m].list.shown \ ui.opened[m].list.disabled
    /\ ui' = [ui EXCEPT !.opened[m].list.checked =
                            IF p \in @ THEN @ \ {p} ELSE @ \cup {p}]
    /\ UNCHANGED uiFrame

SelectedInMutant(list) == list.checked

\* input[type="checkbox"]:checked:not(:disabled)
SelectedIn(list) == list.checked \ list.disabled

\* document.querySelectorAll('#playlist-list input...'): the matching
\* checkboxes of every list in the document
SelectedPlaylistIds(u) == UNION {SelectedIn(u.opened[m].list) : m \in Attached(u)}

\* document.body.removeChild(overlay)
RemoveOverlay(u, m) ==
    [u EXCEPT !.document = SelectSeq(@, LAMBDA x : x # m), !.opened[m].overlay = "removed"]

\* addBtn click: addToSelectedPlaylists(song); document.body.removeChild(overlay)
AddButtonClicked(m, ok, titleOk) ==
    /\ m \in Attached(ui)
    /\ AddRequests(ui.opened[m].song, SelectedPlaylistIds(ui), ok, titleOk)
    /\ ui' = RemoveOverlay(ui, m)
    /\ UNCHANGED <<host, out, norm>>

\* cancelBtn click, or a click on the overlay outside the modal
CancelClicked(m) ==
    /\ m \in Attached(ui)
    /\ ui' = RemoveOverlay(ui, m)
    /\ UNCHANGED uiFrame

\* the handler of ContextMenu.onMediaItem for a collection whose first media
\* item is first (0: it yields none); fails: the extraction throws
CapturedId(current, first, fails) ==
    IF fails THEN 0 ELSE IF first = 0 THEN current ELSE first

OnMediaItem(first, fails) ==
    /\ ui.menus < MaxMenus
    /\ ui' = [ui EXCEPT !.contextMenuSongId = CapturedId(@, first, fails),
                        !.menus = @ + 1,
                        !.menu = [open |-> TRUE, first |-> first, failed |-> fails]]
    /\ UNCHANGED uiFrame

\* contextMenuButton.onClick: contextMenu/CLOSE, then setTimeout(..., 100)
ContextMenuButtonClicked ==
    /\ ui.menu.open
    /\ ui' = [ui EXCEPT !.menu.open = FALSE,
                        !.clicks = Append(@, [first |-> ui.menu.first, failed |-> ui.menu.failed])]
    /\ UNCHANGED uiFrame

\* the callback of the 100 ms timer; loads: MediaItem.fromId yields the item
ClickTimerFires(loads) ==
    /\ ui.clicks # <<>>
    /\ Len(ui.opened) < MaxOpens
    /\ LET c == Head(ui.clicks)
           id == ui.contextMenuSongId
           popped == [ui EXCEPT !.clicks = Tail(@)]
           click == [fired |-> TRUE, first |-> c.first, failed |-> c.failed, song |-> 0,
                     notice |-> "none"]
       IN ui' = IF id = 0
                THEN [popped EXCEPT !.lastClick = [click EXCEPT !.notice = "No song selected"]]
                ELSE IF ~loads
                THEN [popped EXCEPT !.lastClick = [click EXCEPT !.notice = "error"]]
                ELSE [ShowPlaylistSelectorOn(popped, id) EXCEPT
                          !.lastClick = [click EXCEPT !.song = id]]
    /\ UNCHANGED uiFrame

(***************************************************************************)
(* Host snapshots the lookups and the modal are examined on.               *)
(***************************************************************************)
Array(list) == [form |-> "array", list |-> list, items |-> <<>>]

\* item lists that exercise the matching: every candidate field, number and
\* string ids, entries wrapped in .item, the { items: [...] } response
SampleResponses ==
    {Array(<<>>),
     Array(<<With("id", Num(SongId))>>),
     Array(<<With("mediaItemId", Str(SongId))>>),
     Array(<<Wrapped(BlankEntry, With("trackId", Str(SongId)))>>),
     Array(<<With("itemId", Num(SongId))>>),
     Array(<<Wrapped(BlankEntry, With("productId", Num(SongId)))>>),
     Array(<<With("id", Str(OtherId))>>),
     Array(<<With("albumId", Str(SongId))>>),
     Array(<<Wrapped(With("id", Str(SongId)), With("id", Str(OtherId)))>>),
     Array(<<With("id", Num(OtherId)), With("trackId", Num(SongId))>>),
     [form |-> "object", list |-> <<>>, items |-> <<With("id", Str(SongId))>>],
     [form |-> "none", list |-> <<>>, items |-> <<>>],
     Array(<<Titled(<<"A", " ", " ", "b">>, <<"B">>)>>),
     Array(<<Titled(<<"a", "-", "b">>, <<>>)>>)}

PlainResponses == {Array(<<>>), Array(<<With("id", Num(SongId))>>)}

SampleMetas == {SongMeta, [title |-> <<"A", " ", "B", "!">>, artist |-> <<"b">>]}

\* owned by the current user, another user's, and not a user playlist
PlaylistKinds ==
    {[type |-> "USER", creator |-> "u1"],
     [type |-> "USER", creator |-> "u2"],
     [type |-> "EDITORIAL", creator |-> "u1"]}

PlaylistStates(responses, fetches) ==
    {[type |-> k.type, creator |-> k.creator, inStore |-> s, inHelper |-> hl,
      resp |-> r, fetchFails |-> f] :
        k \in PlaylistKinds, s \in BOOLEAN, hl \in BOOLEAN, r \in responses, f \in fetches}

HelperKinds == {"none", "getUserPlaylists", "getMyPlaylists", "throws"}

\* the first playlist takes every response, the others contain the song
HostIs(user, helper, first, rest) ==
    host = [store |-> "ok", userId |-> user, helper |-> helper,
            pl |-> [p \in Playlists |-> IF p = 1 THEN first ELSE rest[p]]]

DefaultHost ==
    [store |-> "ok", userId |-> "u1", helper |-> "none",
     pl |-> [p \in Playlists |->
                [type |-> "USER", creator |-> "u1", inStore |-> TRUE, inHelper |-> FALSE,
                 resp |-> Array(<<>>), fetchFails |-> FALSE]]]

\* a host whose store cannot be read: there is no state that lists playlists
BrokenHost ==
    [DefaultHost EXCEPT !.store = "throws",
                        !.pl = [p \in Playlists |-> [DefaultHost.pl[p] EXCEPT !.inStore = FALSE]]]

InitHost ==
    /\ host = DefaultHost
    /\ out = EmptyResult("none")

(***************************************************************************)
(* Specifications.                                                         *)
(***************************************************************************)
InitRows ==
    /\ nodes = <<>>
    /\ pluginState = "loading"
    /\ moState = "idle"
    /\ processed = {}
    /\ again = [state |-> "none", processed |-> {}]
    /\ faults = [ids |-> {}, caught |-> FALSE, escaped |-> FALSE]
    /\ pending = <<>>
    /\ scanTimer = FALSE

\* the module state after evaluation, before init() has run
InitModule ==
    /\ membershipResultCache = [t \in Tracks |-> 0]
    /\ membershipInFlight = [t \in Tracks |-> 0]
    /\ inFlightCount = 0
    /\ membershipQueue = <<>>
    /\ tasks = <<>>
    /\ addEpoch = [t \in Tracks |-> 0]
    /\ nAdds = 0
    /\ served = [t \in Tracks |-> "none"]
    /\ resolvedSince = [t \in Tracks |-> 0]
    /\ recentlyAddedByTrack = <<>>
    /\ timers = <<>>
    /\ clock = 0
    /\ lastAdded = [p \in Tracks \X Playlists |-> -1]
    /\ addRun = NoRun
    /\ ui = NoUi

\* the plugin is loaded into a document that already has its body
Init ==
    /\ InitModule
    /\ norm = NotNormalized(<<>>)
    /\ InitRows
    /\ InitHost
    /\ readyState = "loaded"

\* the resolver with the orchestrator's invalidation
Next ==
    \/ \E t \in (FreshTracks \cap GateFillers) \cup FocusTracks : GetMembershipCall(t)
    \/ \E k \in TaskIds : TaskSettles(k, FALSE)
    \/ \E k \in TaskIds : tasks[k].track \in FocusTracks /\ TaskSettles(k, TRUE)
    \/ \E t \in FocusTracks, ok \in SUBSET {1}, titleOk \in BOOLEAN :
            nAdds < MaxAdds /\ AddToSelectedPlaylists(t, {1}, ok, titleOk)

Spec == Init /\ [][Next]_vars

\* the gate alone: any lookup may fail, nothing is invalidated
NextGate ==
    \/ \E t \in FreshTracks \cup FocusTracks : GetMembershipCall(t)
    \/ \E k \in TaskIds, fail \in BOOLEAN : TaskSettles(k, fail)

SpecGate == Init /\ [][NextGate]_vars

\* the gate when every lookup that was started settles sooner or later
SpecGateFair ==
    /\ Init
    /\ [][NextGate]_vars
    /\ \A k \in 1..MaxTasks : WF_vars(\E fail \in BOOLEAN : TaskSettles(k, fail))

\* the overlay: adds of up to two tracks to any selection, and time
OverlayTracks == {1, NumTracks}

NextOverlay ==
    \/ \E t \in OverlayTracks, sel \in SUBSET Playlists, titleOk \in BOOLEAN :
         \E ok \in SUBSET sel :
            nAdds < MaxOverlayAdds /\ AddToSelectedPlaylists(t, sel, ok, titleOk)
    \/ TimerFires
    \/ Tick

SpecOverlay == Init /\ [][NextOverlay]_vars

\* the orchestrator in both variants, lookups of the focus track that fill the
\* cache, and time
NextAdd ==
    \/ \E t \in FocusTracks : GetMembershipCall(t)
    \/ \E k \in TaskIds : TaskSettles(k, FALSE)
    \/ \E t \in OverlayTracks, sel \in SUBSET Playlists, titleOk \in BOOLEAN :
         \E ok \in SUBSET sel :
            nAdds < MaxOverlayAdds /\ AddToSelectedPlaylists(t, sel, ok, titleOk)
    \/ \E t \in OverlayTracks, sel \in SUBSET Playlists, titleOk \in BOOLEAN :
         \E ok \in SUBSET sel :
            nAdds < MaxOverlayAdds /\ AddToSelectedPlaylistsOld(t, sel, ok, titleOk)
    \/ TimerFires
    \/ Tick

SpecAdd == Init /\ [][NextAdd]_vars

\* the row pipeline over the resolver
InitPipeline ==
    /\ InitModule
    /\ norm = NotNormalized(<<>>)
    /\ InitRows
    /\ InitHost
    /\ readyState \in {"head", "body", "loaded"}

NextRows ==
    \/ PluginInit
    \/ BodyParsed
    \/ DOMContentLoaded
    \/ \E tpl \in NodeTemplates : HostInserts(tpl)
    \/ \E n \in 1..MaxNodes : HostReinserts(n)
    \/ ObserverCallback
    \/ ScanTick
    \/ Unload
    \/ \E k \in TaskIds, fail \in BOOLEAN : TaskSettles(k, fail)

SpecRows == InitPipeline /\ [][NextRows]_vars

\* the loaded plugin over a list that inserts and recycles rows; timers,
\* observer callbacks and running lookups are not postponed forever
NextRescan ==
    \/ PluginInit
    \/ BodyParsed
    \/ DOMContentLoaded
    \/ \E tpl \in NodeTemplates : HostInserts(tpl)
    \/ \E n \in 1..MaxNodes, id \in RowTracks : HostRecycles(n, id)
    \/ ObserverCallback
    \/ ScanTick
    \/ \E k \in TaskIds : TaskSettles(k, FALSE)

SpecRescan ==
    /\ InitPipeline
    /\ [][NextRescan]_vars
    /\ WF_vars(PluginInit)
    /\ WF_vars(BodyParsed)
    /\ WF_vars(DOMContentLoaded)
    /\ WF_vars(ObserverCallback)
    /\ WF_vars(ScanTick)
    /\ WF_vars(\E k \in TaskIds : TaskSettles(k, FALSE))

\* the life of the plugin up to and after its teardown: rows, lookups that
\* fill the gate and an add to a playlist; a lookup that is running settles
\* sooner or later (each is a finite chain of host requests)
NextLife ==
    \/ PluginInit
    \/ \E tpl \in NodeTemplates :
            tpl.shape = "row" /\ tpl.attrId # 0 /\ HostInserts(tpl)
    \/ ObserverCallback
    \/ ScanTick
    \/ Unload
    \/ \E t \in FreshTracks \cap GateFillers : GetMembershipCall(t)
    \/ \E k \in TaskIds, fail \in BOOLEAN : TaskSettles(k, fail)
    \/ \E t \in FocusTracks :
            nAdds < MaxAdds /\ AddToSelectedPlaylists(t, {1}, {1}, TRUE)

SpecLife ==
    /\ Init
    /\ [][NextLife]_vars
    /\ WF_vars(\E k \in TaskIds, fail \in BOOLEAN : TaskSettles(k, fail))

\* everything that runs while a result sits in the cache: rows of one
\* track, lookups of a second, adds of the row track and of a third, the
\* modal, overlay expiry and the teardown
OtherTracks == {2}

NextCache ==
    \/ PluginInit
    \/ \E tpl \in NodeTemplates : tpl.shape = "row" /\ tpl.attrId = 1 /\ HostInserts(tpl)
    \/ ObserverCallback
    \/ ScanTick
    \/ Unload
    \/ \E t \in OtherTracks : GetMembershipCall(t)
    \/ \E k \in TaskIds, fail \in BOOLEAN : TaskSettles(k, fail)
    \/ \E t \in OverlayTracks :
            nAdds < MaxAdds /\ AddToSelectedPlaylists(t, {1}, {1}, TRUE)
    \/ ModalOpens
    \/ TimerFires
    \/ Tick

SpecCache == Init /\ [][NextCache]_vars

\* the row pipeline with a host library that throws for some tracks
NextFaults ==
    \/ NextRows
    \/ \E id \in RowTracks : HostBreaks(id)

SpecFaults == InitPipeline /\ [][NextFaults]_vars

\* the row pipeline with a second observe() call and nested insertions
NextObserve ==
    \/ NextRows
    \/ ObserveAgain
    \/ \E tpl \in NodeTemplates : HostInsertsNested(tpl)

SpecObserve == InitPipeline /\ [][NextObserve]_vars

\* the lookups over every host snapshot
InitLookup ==
    /\ InitModule
    /\ norm = NotNormalized(<<>>)
    /\ InitRows
    /\ readyState = "loaded"
    /\ out = EmptyResult("none")
    /\ \/ \E user \in {"", "u1"}, helper \in HelperKinds :
            \E first \in PlaylistStates(SampleResponses, BOOLEAN) :
              \E rest \in [Playlists \ {1} -> PlaylistStates({Array(<<With("id", Num(SongId))>>)}, {FALSE})] :
                 HostIs(user, helper, first, rest)
       \/ host = BrokenHost

NextLookup ==
    \/ \E completion \in CompletionOrders(FetchedBy(host)) : LookupRuns(completion)
    \/ \E meta \in SampleMetas, completion \in CompletionOrders(FetchedBy(host)) :
            MetaLookupRuns(meta, completion)

SpecLookup == InitLookup /\ [][NextLookup]_vars

\* the modal's list over every host snapshot
InitModal ==
    /\ InitModule
    /\ norm = NotNormalized(<<>>)
    /\ InitRows
    /\ readyState = "loaded"
    /\ out = EmptyResult("none")
    /\ \E user \in {"", "u1"}, helper \in HelperKinds :
         \E first \in PlaylistStates(PlainResponses, {FALSE}) :
           \E rest \in [Playlists \ {1} -> PlaylistStates({Array(<<With("id", Num(SongId))>>)}, {FALSE})] :
              HostIs(user, helper, first, rest)

NextModal ==
    \/ ModalOpens
    \/ ModalOpensFromRedux
    \/ ModalOpensOld

SpecModal == InitModal /\ [][NextModal]_vars

\* normalize over every title or artist name of up to MaxLen characters:
\* letters of both cases, a space, a tab and a punctuation mark
MaxLen == 5

TitleChars == {"a", "B", " ", "\t", "-"}

Titles == UNION {[1..n -> TitleChars] : n \in 0..MaxLen}

InitNormalize ==
    /\ InitModule
    /\ InitRows
    /\ InitHost
    /\ readyState = "loaded"
    /\ \E str \in Titles : norm = NotNormalized(str)

\* checkSongInUserPlaylistsByMeta normalizes the string
NormalizeRuns ==
    /\ ~norm.done
    /\ norm' = Normalized(norm.input)
    /\ UNCHANGED <<resolverVars, addEpoch, nAdds, overlayVars, clock, rowVars, host, out, addRun, ui>>

NextNormalize == NormalizeRuns

SpecNormalize == InitNormalize /\ [][NextNormalize]_vars

\* a host with both ways to list playlists: playlist 1 answers first, which
\* may hold the song of track NumTracks by its id; playlist 2 holds the other
\* song by its title alone
SelectorHost(helper, first) ==
    [DefaultHost EXCEPT
        !.helper = helper,
        !.pl = [p \in Playlists |->
                  [DefaultHost.pl[p] EXCEPT
                      !.inHelper = TRUE,
                      !.resp = IF p = 1 THEN first
                               ELSE Array(<<Titled(<<"B">>, <<>>)>>)]]]

InitSelector ==
    /\ InitModule
    /\ norm = NotNormalized(<<>>)
    /\ InitRows
    /\ readyState = "loaded"
    /\ out = EmptyResult("none")
    /\ \E helper \in {"none", "getUserPlaylists", "throws"}, first \in PlainResponses :
          host = SelectorHost(helper, first)

\* two songs' modals, opened in any overlap
NextSelector ==
    \/ \E s \in ModalSongs : ShowPlaylistSelector(s)
    \/ \E i \in 1..MaxOpens : DetailsResolve(i)
    \/ \E i \in 1..MaxOpens : HelperResolves(i)
    \/ \E i \in 1..MaxOpens : IdCheckResolves(i)
    \/ \E i \in 1..MaxOpens : MetaCheckResolves(i)
    \/ \E m \in 1..MaxOpens, p \in Playlists : UserTicks(m, p)
    \/ \E m \in 1..MaxOpens, ok \in SUBSET Playlists, titleOk \in BOOLEAN :
          AddButtonClicked(m, ok, titleOk)
    \/ \E m \in 1..MaxOpens : CancelClicked(m)

SpecSelector == InitSelector /\ [][NextSelector]_vars

\* context menus shown for either song's collection, for an empty one, or
\* with a failing extraction, and the button clicked in them
NextContextMenu ==
    \/ \E first \in ModalSongs \cup {0}, fails \in BOOLEAN : OnMediaItem(first, fails)
    \/ ContextMenuButtonClicked
    \/ \E loads \in BOOLEAN : ClickTimerFires(loads)
    \/ \E i \in 1..MaxOpens : DetailsResolve(i)
    \/ \E m \in 1..MaxOpens : CancelClicked(m)

SpecContextMenu == InitSelector /\ [][NextContextMenu]_vars

\* the track the host's song (SongId) is: the lookups and the modal read the
\* overlay under its id
SongTrack == NumTracks

\* the places that display membership of the song: rows that carry its id,
\* and the modal opened for it, while the host's own data has not taken in
\* the adds the orchestrator made (the host snapshot stays as it is)
NextDisplay ==
    \/ PluginInit
    \/ \E tpl \in NodeTemplates : tpl.shape = "row" /\ HostInserts(tpl)
    \/ ObserverCallback
    \/ ScanTick
    \/ \E k \in TaskIds : TaskSettles(k, FALSE)
    \/ \E sel \in SUBSET Playlists :
            nAdds < MaxAdds /\ AddToSelectedPlaylists(SongTrack, sel, sel, TRUE)
    \/ ModalOpens
    \/ ModalOpensFromRedux

SpecDisplay == Init /\ [][NextDisplay]_vars

(***************************************************************************)
(* Claims about the gate (SpecGate).                                       *)
(***************************************************************************)
Running == {k \in TaskIds : tasks[k].status = "running"}

Queued == {k \in TaskIds : tasks[k].status = "queued"}

AllSettled == \A k \in TaskIds : tasks[k].status = "settled"

\* C1: in every reachable state the number of admitted, unsettled membership
\* computations, and the counter inFlightCount, is at most
\* MAX_CONCURRENT_MEMBERSHIP (5).
C1_ConcurrencyBound ==
    /\ inFlightCount <= MAX_CONCURRENT_MEMBERSHIP
    /\ Cardinality(Running) <= MAX_CONCURRENT_MEMBERSHIP

\* the gate is full and two more requests wait
C1_Witness ==
    /\ inFlightCount = MAX_CONCURRENT_MEMBERSHIP
    /\ Len(membershipQueue) = 2

\* C2: a request that arrives while 5 computations run is put at the back of
\* the queue; a settling computation admits exactly one queued request when
\* the queue is non-empty; the request admitted is the one that arrived first
\* among those queued.
C2_FifoAdmission ==
    [][ /\ \A k \in Queued : tasks'[k].status = "running" =>
                /\ \A j \in Queued : k <= j
                /\ \E r \in Running : tasks'[r].status = "settled"
        /\ \A r \in Running : (tasks'[r].status = "settled" /\ Queued # {}) =>
                Cardinality({k \in Queued : tasks'[k].status = "running"}) = 1
        /\ (Len(tasks') > Len(tasks) /\ Cardinality(Running) = MAX_CONCURRENT_MEMBERSHIP) =>
                /\ tasks'[Len(tasks')].status = "queued"
                /\ membershipQueue' = Append(membershipQueue, Len(tasks'))
      ]_vars

\* a queued request has been admitted while a later one still waits
C2_Witness ==
    \E j, k \in TaskIds :
        /\ j < k
        /\ tasks[j].wasQueued /\ tasks[j].status = "running"
        /\ tasks[k].status = "queued"

\* C3 as claimed: the queued lookups complete in the order they were
\* submitted.
C3_CompleteInSubmissionOrder ==
    \A j, k \in TaskIds :
        (j < k /\ tasks[j].wasQueued /\ tasks[k].wasQueued /\ tasks[k].status = "settled")
            => tasks[j].status = "settled"

\* C3 as amended: the queued lookups are started in the order they were
\* submitted: none of them is running or settled while one queued ahead of
\* it still waits.  (They complete in whatever order their lookups end.)
C3_StartInSubmissionOrder ==
    \A j, k \in TaskIds :
        (j < k /\ tasks[j].wasQueued /\ tasks[k].wasQueued /\ tasks[k].status # "queued")
            => tasks[j].status # "queued"

\* two queued lookups, the later one settled while the earlier one still runs
C3_Witness ==
    \E j, k \in TaskIds :
        /\ j < k
        /\ tasks[j].wasQueued /\ tasks[k].wasQueued
        /\ tasks[j].status = "running" /\ tasks[k].status = "settled"

\* C8: a settling computation releases its slot exactly once and its track's
\* in-flight entry is removed, whether the lookup succeeded or failed; once
\* every lookup has settled, inFlightCount is 0 and the queue and the
\* in-flight map are empty.
C8_SlotReleased ==
    /\ [](AllSettled => /\ inFlightCount = 0
                         /\ membershipQueue = <<>>
                         /\ \A t \in Tracks : membershipInFlight[t] = 0)
    /\ [][\A r \in Running : tasks'[r].status = "settled" =>
            /\ membershipInFlight'[tasks[r].track] = 0
            /\ inFlightCount' =
                  inFlightCount - 1 + Cardinality({k \in Queued : tasks'[k].status = "running"})
       ]_vars

\* more lookups than slots, one of them failed, and all have settled
C8_Witness ==
    /\ AllSettled
    /\ \E k \in TaskIds : tasks[k].wasQueued
    /\ \E k \in TaskIds : tasks[k].failed

(***************************************************************************)
(* Claims about the cache and the in-flight map (Spec).                    *)
(***************************************************************************)
\* C4: once a getMembership(T) call has resolved and T has not been
\* invalidated since, a further getMembership(T) call starts no lookup and
\* resolves to the identical result, taken from the cache.
C4_CacheCoherence ==
    \A t \in Tracks :
        resolvedSince[t] # 0 =>
            /\ ~StartsLookup(t)
            /\ membershipResultCache[t] = resolvedSince[t]
            /\ AnswerOf(t) = resolvedSince[t]

\* a second call for the track was answered from the cache
C4_Witness ==
    \E t \in Tracks : resolvedSince[t] # 0 /\ served[t] = "cache"

\* C5: while a computation for T is queued or running and nothing is cached
\* for T, every getMembership(T) call is answered with that computation and
\* starts no other; no two computations for one track are queued or running
\* at the same time.
C5_FanIn ==
    \A t \in Tracks :
        LET U == {k \in TaskIds : tasks[k].track = t /\ Unsettled(k)}
        IN /\ Cardinality(U) <= 1
           /\ \A k \in U : membershipResultCache[t] = 0 =>
                  /\ ~StartsLookup(t)
                  /\ AnswerOf(t) = k

\* a second caller joined a computation that still waits in the gate queue
C5_Witness ==
    \E k \in TaskIds : tasks[k].status = "queued" /\ served[tasks[k].track] = "inflight"

\* C6 as claimed: after a successful add of T, no getMembership(T) call is
\* answered with the result of a lookup that started before the add.
C6_NoPreAddResult ==
    \A t \in Tracks :
        LET k == AnswerOf(t)
        IN (k \in TaskIds /\ tasks[k].status # "queued") =>
                tasks[k].startEpoch >= addEpoch[t]

\* C7 as claimed: the result of a failed lookup is not cached.
C7_FailureNotCached ==
    \A k \in TaskIds : tasks[k].failed => membershipResultCache[tasks[k].track] # k

C10_RowProcessedOnce ==
    /\ [](\A n \in DOMAIN nodes :
            /\ nodes[n].extractions <= 1
            /\ nodes[n].lookups <= 1
            /\ nodes[n].checked => nodes[n].extractions = 1)
    /\ [][\A n \in DOMAIN nodes : nodes[n].checked =>
            /\ nodes'[n].checked
            /\ nodes'[n].extractions = nodes[n].extractions
            /\ nodes'[n].lookups = nodes[n].lookups]_vars

\* a row that both the watcher and the scan came across, looked up once
C10_Witness ==
    \E n \in DOMAIN nodes :
        /\ nodes[n].seenBy = {"watcher", "scan"}
        /\ nodes[n].extractions = 1
        /\ nodes[n].lookups = 1

\* C11: a row from which no track identifier can be extracted is marked
\* processed by the first pass that meets it, and no getMembership call is
\* ever made for it: it waits for no lookup and is never annotated, in that
\* pass or any later scan or watcher callback.
C11_NoIdRowSkipped ==
    \A n \in DOMAIN nodes :
        GetTrackIdFromRow(nodes[n]) = 0 =>
            /\ nodes[n].lookups = 0
            /\ nodes[n].waits = 0
            /\ nodes[n].annot = 0
            /\ nodes[n].seenBy # {} => (nodes[n].checked /\ nodes[n].extractions = 1)

\* a row without an id that both the watcher and the scan have met
C11_Witness ==
    \E n \in DOMAIN nodes :
        /\ GetTrackIdFromRow(nodes[n]) = 0
        /\ nodes[n].shape = "row"
        /\ nodes[n].seenBy = {"watcher", "scan"}
        /\ nodes[n].checked

\* C12: two distinct row nodes that carry the same track id and are both
\* processed before the lookup settles wait for one and the same lookup,
\* the only one made for that id, and the step that settles it annotates
\* both with its result.
C12_SameIdRowsShareLookup ==
    /\ [](\A m, n \in DOMAIN nodes :
            (/\ m # n
             /\ GetTrackIdFromRow(nodes[m]) = GetTrackIdFromRow(nodes[n])
             /\ nodes[m].waits # 0 /\ nodes[n].waits # 0) =>
                /\ nodes[m].waits = nodes[n].waits
                /\ Unsettled(nodes[m].waits)
                /\ Cardinality({k \in TaskIds :
                        tasks[k].track = GetTrackIdFromRow(nodes[m])}) = 1)
    /\ [][\A m, n \in DOMAIN nodes :
            (/\ m # n
             /\ nodes[m].waits # 0
             /\ nodes[m].waits = nodes[n].waits
             /\ tasks'[nodes[m].waits].status = "settled") =>
                /\ nodes'[m].annot = nodes[m].waits
                /\ nodes'[n].annot = nodes[m].waits]_vars

\* two rows with one track id wait for the same lookup
C12_Witness ==
    \E m, n \in DOMAIN nodes :
        /\ m # n
        /\ nodes[m].shape = "row" /\ nodes[n].shape = "row"
        /\ nodes[m].waits # 0
        /\ nodes[m].waits = nodes[n].waits

(***************************************************************************)
(* Claims about the underlying lookup (SpecLookup) and the modal's list    *)
(* (SpecModal).                                                            *)
(***************************************************************************)
\* playlist p is a user playlist created by the current user
OwnedByCurrentUser(p) == host.pl[p].type = "USER" /\ host.pl[p].creator = host.userId

\* the item list of playlist p has an entry whose id, mediaItemId, trackId,
\* itemId or productId, read on entry.item when present, is the song's id
HasMatchingEntry(p) ==
    LET list == host.pl[p].resp.list \o host.pl[p].resp.items
    IN \E i \in 1..Len(list) :
          LET e == IF list[i].item = <<>> THEN list[i] ELSE list[i].item[1]
          IN \E f \in {"id", "mediaItemId", "trackId", "itemId", "productId"} :
                e[f].t # "null" /\ e[f].d = SongId

\* C13 as claimed: every playlist in the result of checkSongInUserPlaylists
\* or checkSongInUserPlaylistsByMeta, and every playlist whose items either
\* fetches, is a user playlist created by the current user.
C13_LookupOnlyOwned ==
    out.kind \in {"lookup", "meta"} =>
        \A p \in out.playlists \cup out.fetched : OwnedByCurrentUser(p)

\* C14 as claimed: the playlists the modal lists are all owned by the current
\* user, in both plugin variants and on both enumeration paths, and none is
\* listed when the current user is unknown.
C14_ModalOnlyOwned ==
    out.kind \in {"modal", "modalRedux", "modalOld"} =>
        /\ \A p \in out.shown : OwnedByCurrentUser(p)
        /\ host.userId = "" => out.shown = {}

\* C15: when the current user id is missing, checkSongInUserPlaylists
\* returns the empty result and has neither enumerated playlists nor
\* fetched the items of any.
C15_UnknownUserEmptyResult ==
    (out.kind = "lookup" /\ host.userId = "") =>
        /\ ~out.existsInPlaylists
        /\ out.playlists = {}
        /\ out.fetched = {}
        /\ ~out.enumerated

\* a lookup for an unknown user on a host that lists playlists
C15_Witness ==
    /\ out.kind = "lookup"
    /\ host.userId = ""
    /\ HasHelper(host)
    /\ \E p \in Playlists : host.pl[p].inStore /\ host.pl[p].inHelper /\ HasMatchingEntry(p)

C17_FetchFailureIsolated ==
    out.kind = "lookup" =>
        /\ out.playlists = {p \in out.fetched : ~host.pl[p].fetchFails /\ HasMatchingEntry(p)}
        /\ \A p \in Playlists :
              (host.userId # "" /\ host.pl[p].inStore /\ OwnedByCurrentUser(p)) => p \in out.fetched

\* the fetch of a playlist that contains the song failed and another
\* playlist is reported
C17_Witness ==
    /\ out.kind = "lookup"
    /\ host.pl[1].fetchFails /\ HasMatchingEntry(1)
    /\ 1 \in out.fetched
    /\ \E p \in Playlists \ {1} : p \in out.playlists

(***************************************************************************)
(* The orchestrator's runs.                                                *)
(***************************************************************************)
\* the positions of the run's log that are add requests for playlist p
RequestsFor(p) == {i \in DOMAIN addRun.log : addRun.log[i].op = "add" /\ addRun.log[i].pid = p}

\* the playlists whose add request of the run returned / was followed by an overlay write
SucceededIn(log) == {log[i].pid : i \in {j \in DOMAIN log : log[j].op = "add" /\ ~log[j].threw}}

RememberedIn(log) == {log[i].pid : i \in {j \in DOMAIN log : log[j].op = "remember"}}

\* the (track, playlist) pairs of an overlay map
OverlayPairs(recent) == {tp \in Tracks \X Playlists : tp[1] \in DOMAIN recent /\ tp[2] \in recent[tp[1]]}

\* C18: after a run of addToSelectedPlaylists (either variant) with a non-empty
\* selection, exactly one add request was issued for every selected playlist,
\* none for any other, and successCount + errorCount is the number selected.
C18_OneRequestPerSelected ==
    (addRun.variant # "none" /\ addRun.sel # {}) =>
        /\ \A p \in addRun.sel : Cardinality(RequestsFor(p)) = 1
        /\ \A p \in Playlists \ addRun.sel : RequestsFor(p) = {}
        /\ addRun.successCount + addRun.errorCount = Cardinality(addRun.sel)

\* C19: a run of the newer addToSelectedPlaylists for track T adds to the overlay
\* exactly the pairs (T, P) of the playlists P whose request succeeded; every
\* successful request is followed at once by its overlay write, and every
\* overlay write follows a successful request for the same playlist.
C19_SuccessesRecorded ==
    [][(nAdds' = nAdds + 1 /\ addRun'.variant = "new") =>
          LET log == addRun'.log
          IN /\ RememberedIn(log) = SucceededIn(log)
             /\ \A i \in DOMAIN log :
                   (log[i].op = "add" /\ ~log[i].threw) =>
                       (i + 1 \in DOMAIN log /\ log[i + 1] = Remembered(log[i].pid))
             /\ \A i \in DOMAIN log :
                   log[i].op = "remember" =>
                       (i > 1 /\ log[i - 1] = Request(log[i].pid, FALSE))
             /\ OverlayPairs(recentlyAddedByTrack') =
                   OverlayPairs(recentlyAddedByTrack) \cup ({addRun'.track} \X SucceededIn(log))]_vars

\* a run in which the first playlist's request threw and the second succeeded:
\* the overlay holds the second only
C19_Witness ==
    /\ addRun.variant = "new"
    /\ addRun.log = <<Request(1, TRUE), Request(2, FALSE), Remembered(2)>>
    /\ RecentFor(addRun.track) = {2}

\* C20: a run of addToSelectedPlaylists (either variant) with nothing selected
\* shows the user an error, issues no request, records no overlay entry and
\* leaves the membership cache as it was.
C20_EmptySelectionRejected ==
    [][(nAdds' = nAdds + 1 /\ addRun'.sel = {}) =>
          /\ addRun'.shown # "none"
          /\ addRun'.log = <<>>
          /\ recentlyAddedByTrack' = recentlyAddedByTrack
          /\ membershipResultCache' = membershipResultCache]_vars

(***************************************************************************)
(* Where membership is displayed (SpecDisplay).                            *)
(***************************************************************************)
\* the playlists a row annotation counts and names for the song: those of the
\* result it was written from, which the lookup computed from the host
RowShows(node) == CheckSongInUserPlaylists(host, SongId).playlists

\* the rows whose annotation is written in this step
AnnotatedNow ==
    {n \in DOMAIN nodes' :
        /\ nodes'[n].annot # 0
        /\ n \in DOMAIN nodes => nodes[n].annot # nodes'[n].annot}

\* C21: whenever membership of track T is rendered, every playlist P with
\* (T, P) in the overlay is shown as containing T: in the modal's list (P is
\* checked when it is listed) and in the annotation written on a row of T.
C21_OverlayShownEverywhere ==
    [][/\ (out' # out /\ out'.kind \in {"modal", "modalRedux"}) =>
              \A p \in out'.shown \cap RecentFor(SongTrack) : p \in out'.checked
       /\ \A n \in AnnotatedNow :
              GetTrackIdFromRow(nodes'[n]) = SongTrack =>
                  RecentFor(SongTrack) \subseteq RowShows(nodes'[n])]_vars

(***************************************************************************)
(* Teardown and the watcher (SpecRows).                                    *)
(***************************************************************************)
\* C22: once the teardown callbacks have run, the watcher passes no further
\* element to onMatch (processed does not grow) and no further scan pass
\* comes across an element, whether teardown ran before or after the
\* deferred installation of the watcher.
C22_TeardownStopsWatching ==
    [][pluginState = "unloaded" =>
          /\ processed' = processed
          /\ \A n \in DOMAIN nodes' :
                "scan" \in nodes'[n].seenBy =>
                    (n \in DOMAIN nodes /\ "scan" \in nodes[n].seenBy)]_vars

(***************************************************************************)
(* The observe utility (SpecObserve).                                      *)
(***************************************************************************)
\* C23: one observe() call passes an element to onAdd at most once, however
\* often the element is met (initial pass, added node, descendant of an
\* added node, re-insertion); the WeakSet is per call: a second observe()
\* call passes every matching element of the document, also those the first
\* call has passed.
C23_OncePerElementPerCall ==
    /\ \A n \in DOMAIN nodes : \A c \in 1..2 : nodes[n].passed[c] <= 1
    /\ (again.state = "observing" /\ pending = <<>>) =>
          \A n \in DOMAIN nodes : MatchesObserve(nodes[n]) => nodes[n].passed[2] = 1

\* two elements that each call has passed once, with no record pending
C23_Witness ==
    \E n \in DOMAIN nodes :
        /\ nodes[n].passed = <<1, 1>>
        /\ n \in processed
        /\ n \in again.processed
        /\ pending = <<>>
        /\ \E m \in DOMAIN nodes : m # n /\ nodes[m].passed = <<1, 1>>

(***************************************************************************)
(* The order of the result (SpecLookup).                                   *)
(***************************************************************************)
\* C24: the playlists sequence of a lookup's result lists the containing
\* playlists in the order in which the user's playlists were enumerated, in
\* whatever order the fetches settled.
C24_EnumerationOrder ==
    out.kind \in {"lookup", "meta"} =>
        out.order = SelectSeq(Enumeration(out), LAMBDA p : p \in out.playlists)

(***************************************************************************)
(* The periodic rescan (SpecRescan).                                       *)
(***************************************************************************)
\* element n is a row the scan's selectors match and it shows a track
ShowsTrack(n) ==
    /\ n \in DOMAIN nodes
    /\ \E i \in 1..Len(RowSelectors) : SelectorMatches(RowSelectors[i], nodes[n])
    /\ GetTrackIdFromRow(nodes[n]) # 0

\* element n carries the annotation of a lookup for the track it shows now
AnnotatedForShown(n) ==
    /\ n \in DOMAIN nodes
    /\ nodes[n].annot # 0
    /\ tasks[nodes[n].annot].track = GetTrackIdFromRow(nodes[n])

\* C25: while the plugin is loaded, every row that shows a track is
\* eventually annotated from a lookup for the track it shows, whether or not
\* the watcher saw it, also after its id attributes were rewritten in place.
C25_RescanReachesEveryRow ==
    \A n \in 1..MaxNodes : ShowsTrack(n) ~> AnnotatedForShown(n)

(***************************************************************************)
(* C26: an exception while processing one row, in a scan pass or in a      *)
(* watcher callback, does not keep the remaining rows of that pass or      *)
(* callback from being processed, and does not reach the host: after a     *)
(* pass that visited a row every row a selector matches is marked, after   *)
(* a callback every matching element of its records is in the seen set,    *)
(* and no step lets an exception escape.                                   *)
(***************************************************************************)
ScanRows == {n \in DOMAIN nodes : \E i \in 1..Len(RowSelectors) : SelectorMatches(RowSelectors[i], nodes[n])}

ScanVisited == \E n \in DOMAIN nodes : "scan" \in nodes'[n].seenBy \ nodes[n].seenBy

CallbackRan == pending # <<>> /\ pending' = <<>>

C26_RowErrorsIsolated ==
    [][/\ faults'.escaped = faults.escaped
       /\ ScanVisited => \A n \in ScanRows : nodes'[n].checked
       /\ CallbackRan =>
             \A i \in 1..Len(pending) :
                 MatchesObserve(nodes[pending[i]]) => pending[i] \in processed']_vars

\* what holds of the code: an exception in a scan pass is caught by the pass
C26_ScanCatches ==
    [][ScanVisited => faults'.escaped = faults.escaped]_vars

(***************************************************************************)
(* C27: when the expiry callback of (T, P1) runs, it removes P1 from T's   *)
(* set and nothing else: the sets of the other tracks and the other        *)
(* playlists of T stay, and T's key leaves the map exactly when its set    *)
(* has become empty.                                                       *)
(***************************************************************************)
RecentIn(recent, t) == IF t \in DOMAIN recent THEN recent[t] ELSE {}

ExpiryRan == Len(timers') < Len(timers)

C27_ExpiryRemovesOnlyItsPair ==
    [][ExpiryRan =>
         LET e == Head(timers)
             rest == RecentIn(recentlyAddedByTrack, e.tid) \ {e.pid}
         IN /\ RecentIn(recentlyAddedByTrack', e.tid) = rest
            /\ e.tid \in DOMAIN recentlyAddedByTrack' <=> rest # {}
            /\ \A u \in Tracks \ {e.tid} :
                  /\ u \in DOMAIN recentlyAddedByTrack' <=> u \in DOMAIN recentlyAddedByTrack
                  /\ RecentIn(recentlyAddedByTrack', u) = RecentIn(recentlyAddedByTrack, u)]_vars

\* (T, P1) has expired while T still has P2 and another track has an entry
C27_Witness ==
    \E t \in Tracks, p1 \in Playlists :
        /\ lastAdded[<<t, p1>>] >= 0
        /\ p1 \notin RecentFor(t)
        /\ RecentFor(t) # {}
        /\ \E u \in Tracks \ {t} : RecentFor(u) # {}

(***************************************************************************)
(* C28: the teardown leaves the cache, the in-flight map, the admission    *)
(* queue and the overlay as they are and cancels nothing: every lookup     *)
(* that is running or queued when the plugin is unloaded settles later,    *)
(* and when it settles its result is cached and written to the rows that   *)
(* wait for it.                                                            *)
(***************************************************************************)
TeardownRan == pluginState = "running" /\ pluginState' = "unloaded"

SettledNow(k) == k \in TaskIds /\ tasks[k].status # "settled" /\ tasks'[k].status = "settled"

TeardownFrame ==
    TeardownRan =>
        /\ UNCHANGED <<membershipResultCache, membershipInFlight, inFlightCount,
                       membershipQueue, tasks>>
        /\ UNCHANGED <<recentlyAddedByTrack, timers>>

CompletesAfterTeardown ==
    \A k \in 1..MaxTasks :
        (pluginState = "unloaded" /\ SettledNow(k)) =>
            /\ membershipResultCache'[tasks[k].track] = k
            /\ \A n \in DOMAIN nodes : nodes[n].waits = k => nodes'[n].annot = k

C28_TeardownCancelsNothing ==
    /\ [][TeardownFrame /\ CompletesAfterTeardown]_vars
    /\ (pluginState = "unloaded") ~> (\A k \in TaskIds : tasks[k].status = "settled")

\* after the teardown a lookup that was queued at the teardown has settled,
\* is cached and has annotated a row, and the overlay still has its entry
C28_Witness ==
    /\ pluginState = "unloaded"
    /\ inFlightCount = 0
    /\ recentlyAddedByTrack # <<>>
    /\ \E n \in DOMAIN nodes :
          /\ nodes[n].annot # 0
          /\ tasks[nodes[n].annot].track = SongTrack
          /\ membershipResultCache[SongTrack] = nodes[n].annot
          /\ nodes[n].annot > MAX_CONCURRENT_MEMBERSHIP

(***************************************************************************)
(* C29: a result in the cache for track T stays the entry for T, with the  *)
(* value it was stored with, through every step except a run of the        *)
(* orchestrator for T, which removes it: row processing, scans, the        *)
(* modal, overlay expiry, lookups and adds for other tracks and the        *)
(* teardown leave it as it is.                                             *)
(***************************************************************************)
InvalidatedNow(t) == nAdds' = nAdds + 1 /\ addRun'.track = t

C29_CachedResultStable ==
    [][\A t \in Tracks :
          membershipResultCache[t] # 0 =>
              \/ /\ membershipResultCache'[t] = membershipResultCache[t]
                 /\ tasks'[membershipResultCache[t]] = tasks[membershipResultCache[t]]
              \/ /\ membershipResultCache'[t] = 0
                 /\ InvalidatedNow(t)]_vars

\* a row track's result is still cached after a later lookup of another
\* track has settled, an add for another track has run, its overlay entry
\* has expired, the modal was rendered and the plugin was unloaded
C29_Witness ==
    \E t \in RowTracks :
        /\ pluginState = "unloaded"
        /\ membershipResultCache[t] # 0
        /\ \E k \in TaskIds :
              /\ k > membershipResultCache[t]
              /\ tasks[k].track # t
              /\ tasks[k].status = "settled"
        /\ addRun.track \in OverlayTracks \ {t}
        /\ \E p \in Playlists :
              lastAdded[<<addRun.track, p>>] >= 0 /\ p \notin RecentFor(addRun.track)
        /\ out.kind = "modal"
        /\ \E n \in DOMAIN nodes : nodes[n].annot = membershipResultCache[t]

(***************************************************************************)
(* C30: checkSongInUserPlaylists and checkSongInUserPlaylistsByMeta never  *)
(* reject: whatever the host does, the promise is fulfilled with a result, *)
(* and with { existsInPlaylists: false, playlists: [] } when the error     *)
(* arises outside the per-playlist loop (the store cannot be read) or the  *)
(* fallback helper rejects.                                                *)
(***************************************************************************)
IsEmptyResult(res) == ~res.existsInPlaylists /\ res.playlists = {} /\ res.order = <<>>

HelperRejects(h) == h.helper = "throws" /\ ~UserUnknown(h) /\ StoreOwned(h) = {}

C30_LookupsNeverReject ==
    out.kind \in {"lookup", "meta"} =>
        /\ ~out.rejected
        /\ StoreThrows(host) => IsEmptyResult(out)
        /\ HelperRejects(host) => IsEmptyResult(out)

\* a lookup has run on a host whose store throws
C30_Witness == out.kind \in {"lookup", "meta"} /\ StoreThrows(host) /\ IsEmptyResult(out)

(***************************************************************************)
(* C31: for every input string the normalize of the metadata lookup gives  *)
(* lower-case text without punctuation and without two whitespace          *)
(* characters in a row, normalizing its output again returns the output,   *)
(* and punctuation in the input makes no difference to the result.         *)
(***************************************************************************)
DoubleSpace(str) == \E i \in 1..(Len(str) - 1) : IsSpace(str[i]) /\ IsSpace(str[i + 1])

C31_NormalizeCollapses ==
    norm.done =>
        /\ \A i \in 1..Len(norm.output) :
              (IsAlnum(norm.output[i]) \/ IsSpace(norm.output[i]))
                  /\ Lower(norm.output[i]) = norm.output[i]
        /\ ~DoubleSpace(norm.output)
        /\ NormalizeTitle(norm.output) = norm.output
        /\ NormalizeTitle(StripPunctuation(norm.input)) = norm.output

\* what holds of the code: the output is lower-case and free of punctuation
C31_LowerCaseNoPunctuation ==
    norm.done =>
        \A i \in 1..Len(norm.output) :
            (IsAlnum(norm.output[i]) \/ IsSpace(norm.output[i]))
                /\ Lower(norm.output[i]) = norm.output[i]

(***************************************************************************)
(* C32: an overlay entry (T, P) is in recentlyAddedByTrack during the      *)
(* whole 2 minutes that follow the latest successful add of T to P: the    *)
(* timer of an earlier add of the pair does not remove it before.          *)
(***************************************************************************)
InWindow(t, p) == lastAdded[<<t, p>>] >= 0 /\ clock < lastAdded[<<t, p>>] + EXPIRY_MS

C32_FullWindowAfterLatestAdd ==
    \A t \in Tracks, p \in Playlists : InWindow(t, p) => p \in RecentFor(t)

\* what holds of the code: the entry of a pair that was added once stays
\* for its whole window
C32_FullWindowAfterOnlyAdd ==
    \A t \in Tracks, p \in Playlists :
        (InWindow(t, p) /\ Cardinality({i \in 1..Len(timers) : timers[i].tid = t /\ timers[i].pid = p}) = 1
            /\ nAdds = 1)
            => p \in RecentFor(t)

(***************************************************************************)
(* C33: provided every lookup that was started settles, every request in   *)
(* the admission queue is admitted later on and every getMembership call   *)
(* settles: no request stays in the queue for ever.                        *)
(***************************************************************************)
\* a computation settles only after run() has admitted it
HasSettled(k) == k \in TaskIds /\ tasks[k].status = "settled"

C33_NoRequestStranded ==
    \A k \in 1..MaxTasks : (k \in TaskIds) ~> HasSettled(k)

\* a request that waited in the queue has settled, after a later arrival
C33_Witness ==
    \E k \in TaskIds :
        /\ tasks[k].wasQueued
        /\ tasks[k].status = "settled"
        /\ k < Len(tasks)
        /\ AllSettled

(***************************************************************************)
(* C34: inFlightCount is the number of admitted computations that have     *)
(* not settled, so it is never negative, and while a request waits in the  *)
(* queue it is MAX_CONCURRENT_MEMBERSHIP: no slot is idle while a request  *)
(* waits.                                                                  *)
(***************************************************************************)
C34_CounterIsRunningCount ==
    /\ inFlightCount = Cardinality(Running)
    /\ inFlightCount >= 0
    /\ membershipQueue # <<>> => inFlightCount = MAX_CONCURRENT_MEMBERSHIP
    /\ Len(membershipQueue) = Cardinality(Queued)

\* a settlement has handed its slot to a queued request while another waits
C34_Witness ==
    /\ membershipQueue # <<>>
    /\ \E k \in TaskIds : tasks[k].status = "settled"
    /\ \E k \in Running : tasks[k].wasQueued
    /\ inFlightCount = MAX_CONCURRENT_MEMBERSHIP

(***************************************************************************)
(* C38: recentlyAddedByTrack maps no track id to an empty set: a set       *)
(* enters the map together with its first playlist id, and the expiry      *)
(* callback that removes a set's last element removes the set's key.       *)
(***************************************************************************)
C38_NoEmptySet ==
    \A t \in DOMAIN recentlyAddedByTrack : recentlyAddedByTrack[t] # {}

\* the last entry of one track has expired, its key is gone, and another
\* track still has its set
C38_Witness ==
    \E t \in Tracks :
        /\ \E p \in Playlists : lastAdded[<<t, p>>] >= 0
        /\ t \notin DOMAIN recentlyAddedByTrack
        /\ DOMAIN recentlyAddedByTrack # {}

(***************************************************************************)
(* C35: a playlist that a modal's list shows as already containing the     *)
(* track, whether the id lookup, the metadata fallback or the overlay said *)
(* so, is rendered checked and disabled, and no add request issued by the  *)
(* Add button of that modal targets it.                                    *)
(***************************************************************************)
\* the Add button of modal m was clicked in this step
AddClickedIn(m) == nAdds' = nAdds + 1 /\ m \in Attached(ui) /\ m \notin Attached(ui')

TargetsOf(log) == {log[j].pid : j \in {x \in DOMAIN log : log[x].op = "add"}}

C35_ContainedNeverTargeted ==
    [][\A m \in DOMAIN ui.opened :
          /\ ui.opened[m].list.contains \subseteq
                 (ui.opened[m].list.checked \cap ui.opened[m].list.disabled)
          /\ AddClickedIn(m) => TargetsOf(addRun'.log) \cap ui.opened[m].list.contains = {}]_vars

\* an add was issued from a modal that showed one playlist as containing the
\* track, because of the overlay, and had another one ticked
C35_Witness ==
    \E m \in DOMAIN ui.opened :
        /\ ui.opened[m].overlay = "removed"
        /\ ui.opened[m].list.contains # {}
        /\ ui.opened[m].list.contains \cap RecentFor(ui.opened[m].song) # {}
        /\ SelectedIn(ui.opened[m].list) # {}
        /\ addRun.track = ui.opened[m].song
        /\ TargetsOf(addRun.log) = SelectedIn(ui.opened[m].list)
        /\ nAdds = 2

(***************************************************************************)
(* C36: the membership pre-check that fills a modal's list reads the id    *)
(* and the title/artist of the song that modal was opened for, however two *)
(* showPlaylistSelector invocations interleave: currentSongIdForModal and  *)
(* currentSongMetaForModal are not read after a later open overwrote them. *)
(***************************************************************************)
C36_PreCheckUsesOwnSong ==
    \A i \in DOMAIN ui.opened :
        /\ ui.opened[i].idUsed \in {0, ui.opened[i].song}
        /\ ui.opened[i].metaUsed \in {0, ui.opened[i].song}
        /\ ui.opened[i].recentUsed \in {0, ui.opened[i].song}

(***************************************************************************)
(* C37: when the context-menu button is clicked, the modal opens for the   *)
(* first item of the media collection of the context menu that was just    *)
(* shown; when that collection yields no item or the extraction fails, no  *)
(* song is selected: an id captured from an earlier context menu, or       *)
(* written during the 100 ms delay, is not used.                           *)
(***************************************************************************)
C37_OpensForShownMenu ==
    ui.lastClick.fired =>
        IF ui.lastClick.first = 0 \/ ui.lastClick.failed
        THEN ui.lastClick.song = 0 /\ ui.lastClick.notice = "No song selected"
        ELSE ui.lastClick.song \in {0, ui.lastClick.first}

\* when the extraction fails, no song is selected unless a later menu wrote one
C37_FailedExtractionSelectsNothing ==
    (ui.lastClick.fired /\ ui.lastClick.failed /\ ui.menus = 1)
        => ui.lastClick.song = 0 /\ ui.lastClick.notice = "No song selected"
====
